---- MODULE Spec2Model ----
(***************************************************************************)
(* SchoolRadio: synchronized playback scheduling.                          *)
(*                                                                         *)
(* The module holds these specifications.                                  *)
(*   SpecResolver  getCurrentTrack as a function of (state, origin, now),  *)
(*                 driven by a clock and by playlist merges.               *)
(*   SpecOrigin    the clients start: their getServerStartTime calls       *)
(*                 interleave on an empty store.                           *)
(*   Spec          the started clients initialize the radio, tick and      *)
(*                 reconcile against a changing catalog.                   *)
(*   SpecCycle     the end of a cycle: video-ended events and             *)
(*                 checkAndResetPlayedTracks, the store going away and     *)
(*                 coming back; SpecCycleFair adds the timer's fairness.   *)
(*   SpecShuffle   shuffleArray, one loop iteration per step.              *)
(*   SpecLife      every writer of the radio state after initialization.   *)
(*   SpecPresence  registerListener, unregisterListener and                *)
(*                 cleanupInactiveListeners of several clients,            *)
(*                 interleaved at their awaits; SpecCleanupFair is the     *)
(*                 periodic cleanup under the timer's fairness.            *)
(*   SpecRefresh   Spec with reconciliation passes whose fetch fails.      *)
(*   SpecTimers    the timers of the tick/refresh effect, armed again      *)
(*                 whenever the current track changes.                     *)
(*   SpecTick      updateCurrentPosition split at its await.               *)
(*   SpecBoot      index.js on page load: getServerStartTime and           *)
(*                 refreshPlaylistOnStartup ahead of the App.              *)
(*   SpecFallback  page loads while the store is unreachable.              *)
(*   SpecPoll      the clients without their subscription callbacks.       *)
(* Indices are 0-based as in the source; sequences are 1-based, so the     *)
(* track of index i is playlist[i + 1].                                    *)
(***************************************************************************)
EXTENDS Integers, Sequences, FiniteSets, TLC

VARIABLES
    \* ---- SpecResolver ----
    rState,            \* the state object handed to getCurrentTrack
    rOrigin,           \* serverStartTime
    rNow,              \* Date.now()
    rInfo,             \* what the last getCurrentTrack call returned
    rPrev,             \* what the call before it returned
    rOp,               \* the last step: "init", "tick" or "merge"
    rMerged,           \* whether the playlist has taken a merge
    lastLogTimestamp,  \* module-global of the radio service
    \* ---- SpecOrigin and Spec ----
    now,               \* wall clock
    catalog,           \* the upstream catalog: ids in catalog order
    radioState,        \* store key radioState
    radioServerStartTime, \* store key radioServerStartTime
    clients,           \* per client: program counter and locals
    lastPass,          \* what the last step did as part of a reconciliation pass
    \* ---- SpecCycle ----
    online,            \* whether the store answers
    \* ---- SpecShuffle ----
    shGiven,           \* the array shuffleArray was called with
    shArray,           \* shuffleArray's array
    shI,               \* shuffleArray's i
    \* ---- SpecPresence ----
    listeners,         \* store key listeners: per session id
    stats,             \* store key stats
    presence,          \* per client: its StatsDisplay and its presence calls
    lastOp             \* what the last step completed

rvars == <<rState, rOrigin, rNow, rInfo, rPrev, rOp, rMerged, lastLogTimestamp>>
svars == <<now, catalog, radioState, radioServerStartTime, clients, lastPass>>
shvars == <<shGiven, shArray, shI>>
pvars == <<listeners, stats, presence, lastOp>>
xvars == <<online, shvars, pvars>>
vars == <<rvars, svars, xvars>>

----------------------------------------------------------------------------
(* Bounds *)

MaxLen == 2
MaxShuffleLen == 3
PresenceStepMs == 400000
MaxPresenceSteps == 1
MaxCleanups == 1
T0 == 100000
PhaseMs == 5000
StepMs == 10000
MaxSteps == 20

----------------------------------------------------------------------------
(* Duration strings.  A string is a sequence of tokens: a letter, or a run *)
(* of digits with its value.                                               *)

L(c) == [k |-> c, v |-> 0]
D(n) == [k |-> "#", v |-> n]

NoDuration == << >>
PT1M == <<L("P"), L("T"), D(1), L("M")>>
PT30S == <<L("P"), L("T"), D(30), L("S")>>
PT0S == <<L("P"), L("T"), D(0), L("S")>>
P0D == <<L("P"), D(0), L("D")>>

DurationValues == {NoDuration, PT1M, PT30S, PT0S, P0D}

Track(id, dur) == [id |-> id, duration |-> dur]

----------------------------------------------------------------------------
(* getCurrentTrack *)

\* position of the first "PT" in the string, 0 when there is none
MatchStart(duration) ==
    LET hits == {i \in 1..(Len(duration) - 1) :
                    duration[i].k = "P" /\ duration[i + 1].k = "T"}
    IN IF hits = {} THEN 0
       ELSE CHOOSE i \in hits : \A j \in hits : i <= j

\* the optional group (\d+)<unit> at position p: <<value, next position>>
Group(duration, p, unit) ==
    IF p + 1 <= Len(duration) /\ duration[p].k = "#" /\ duration[p + 1].k = unit
    THEN <<duration[p].v, p + 2>>
    ELSE <<0, p>>

\* hours * 3600 + minutes * perMinute + seconds of the matched groups
DurationOf(h, mi, s, perMinute) == h[1] * 3600 + mi[1] * perMinute + s[1]

MatchSeconds(duration, h, mi, perMinute) ==
    DurationOf(h, mi, Group(duration, mi[2], "S"), perMinute)

MatchMinutes(duration, h, perMinute) ==
    MatchSeconds(duration, h, Group(duration, h[2], "M"), perMinute)

\* the value of the match that starts at m, 0 without a match
MatchValue(duration, m, perMinute) ==
    IF m = 0 THEN 0
    ELSE MatchMinutes(duration, Group(duration, m + 2, "H"), perMinute)

\* parseISODuration with the minutes taken as seconds
parseISODurationNoMinutes(duration) ==
    IF duration = << >> THEN 0
    ELSE MatchValue(duration, MatchStart(duration), 1)

parseISODuration(duration) ==
    IF duration = << >> THEN 0
    ELSE MatchValue(duration, MatchStart(duration), 60)

DefaultDurationMs == 3 * 60 * 1000

TrackDurationMs(track) ==
    IF track.duration # << >>
    THEN parseISODuration(track.duration) * 1000
    ELSE DefaultDurationMs

RECURSIVE SumSeq(_)
SumSeq(s) == IF s = << >> THEN 0 ELSE s[1] + SumSeq(Tail(s))

\* the durations the loop pushes
RawDurations(playlist) ==
    [i \in 1..Len(playlist) |-> TrackDurationMs(playlist[i])]

\* the zero-total fallback: every track gets the default duration
ZeroTotalFallback(raw) ==
    IF SumSeq(raw) = 0 THEN [i \in 1..Len(raw) |-> DefaultDurationMs] ELSE raw

\* trackDurations after the zero-total fallback
trackDurations(playlist) ==
    CHOOSE durs \in {ZeroTotalFallback(raw) : raw \in {RawDurations(playlist)}} : TRUE

totalPlaylistDuration(playlist) == SumSeq(trackDurations(playlist))

\* the selection loop with >= for >
RECURSIVE WalkPlaylistGe(_, _, _, _)
WalkPlaylistGe(durs, epochElapsed, i, acc) ==
    IF i >= Len(durs) THEN <<0, acc>>
    ELSE IF acc + durs[i + 1] >= epochElapsed THEN <<i, acc>>
    ELSE WalkPlaylistGe(durs, epochElapsed, i + 1, acc + durs[i + 1])

\* the selection loop from 0-based index i with accumulatedDuration acc:
\* <<currentIndex, accumulatedDuration>>
RECURSIVE WalkPlaylist(_, _, _, _)
WalkPlaylist(durs, epochElapsed, i, acc) ==
    IF i >= Len(durs) THEN <<0, acc>>
    ELSE IF acc + durs[i + 1] > epochElapsed THEN <<i, acc>>
    ELSE WalkPlaylist(durs, epochElapsed, i + 1, acc + durs[i + 1])

\* the % of the source language: the result has the sign of the dividend
JsRem(a, b) == IF a >= 0 THEN a % b ELSE 0 - ((0 - a) % b)

NoInfo == [ok |-> FALSE]

Includes(seq, x) == \E i \in 1..Len(seq) : seq[i] = x

\* the returned object, given the loop's <<currentIndex, accumulatedDuration>>
CurrentTrackInfo(playlist, epoch, epochElapsed, w) ==
    [ok |-> TRUE,
     track |-> playlist[w[1] + 1],
     position |-> (epochElapsed - w[2]) \div 1000,
     index |-> w[1],
     epoch |-> epoch]

\* the first 0-based index that is not in playedTracks, 0 when all are
FirstUnplayed(unplayed) ==
    IF unplayed = {} THEN 0
    ELSE CHOOSE i \in unplayed : \A j \in unplayed : i <= j

SelectUnplayed(state, elapsed, total) ==
    CurrentTrackInfo(state.playlist, elapsed \div total, JsRem(elapsed, total),
                     <<FirstUnplayed({i \in 0..(Len(state.playlist) - 1) :
                                        ~Includes(state.playedTracks, i)}), 0>>)

\* getCurrentTrack selecting the first index that is not in playedTracks
getCurrentTrackUnplayed(state, serverStartTime, t) ==
    IF ~state.exists \/ state.playlist = << >> THEN NoInfo
    ELSE SelectUnplayed(state, t - serverStartTime,
                        totalPlaylistDuration(state.playlist))

\* epoch, epochElapsed and the selection loop
SelectTrack(playlist, elapsed, durs, total) ==
    CurrentTrackInfo(playlist, elapsed \div total, JsRem(elapsed, total),
                     WalkPlaylist(durs, JsRem(elapsed, total), 0, 0))

SelectFrom(playlist, elapsed, durs) ==
    SelectTrack(playlist, elapsed, durs, SumSeq(durs))

getCurrentTrack(state, serverStartTime, t) ==
    IF ~state.exists \/ state.playlist = << >> THEN NoInfo
    ELSE CHOOSE info \in {SelectFrom(state.playlist, t - serverStartTime, durs) :
                             durs \in {trackDurations(state.playlist)}} : TRUE

LOG_INTERVAL == 30000

\* intervalLog: whether a call at time t logs, given the last log's time
intervalLog(t, llt) == t - llt >= LOG_INTERVAL

\* the logging fields after the call
NoteTrack(state, currentIndex, logged, trackChanged) ==
    IF logged
    THEN [state EXCEPT !.lastLoggedTrack = currentIndex]
    ELSE IF trackChanged /\ ~state.reportedTrackChange
    THEN [state EXCEPT !.reportedTrackChange = TRUE,
                       !.lastLoggedTrack = currentIndex]
    ELSE IF ~trackChanged
    THEN [state EXCEPT !.reportedTrackChange = FALSE]
    ELSE state

\* the played-tracks update pushing currentIndex whether or not it is included
MarkPlayedAgain(state, currentIndex) ==
    IF ~state.hasPlayedTracks
    THEN [state EXCEPT !.hasPlayedTracks = TRUE,
                       !.playedTracks = <<currentIndex>>]
    ELSE [state EXCEPT !.playedTracks = Append(@, currentIndex)]

\* playedTracks after the call
MarkPlayed(state, currentIndex) ==
    IF ~state.hasPlayedTracks
    THEN [state EXCEPT !.hasPlayedTracks = TRUE,
                       !.playedTracks = <<currentIndex>>]
    ELSE IF ~Includes(state.playedTracks, currentIndex)
    THEN [state EXCEPT !.playedTracks = Append(@, currentIndex)]
    ELSE state

\* the state object after a call that resolved `info`
StateAfter(state, info, logged) ==
    IF ~info.ok THEN state
    ELSE MarkPlayed(NoteTrack(state, info.index, logged,
                              state.lastLoggedTrack # info.index),
                    info.index)

\* the state object after getCurrentTrack(state, serverStartTime) ran at time t
getCurrentTrackState(state, serverStartTime, t, llt) ==
    StateAfter(state, getCurrentTrack(state, serverStartTime, t),
               intervalLog(t, llt))

\* lastLogTimestamp after the call
getCurrentTrackLog(state, t, llt) ==
    IF state.exists /\ state.playlist # << >> /\ intervalLog(t, llt) THEN t ELSE llt

----------------------------------------------------------------------------
(* Radio state objects *)

NoState == [exists |-> FALSE, playlist |-> << >>, hasPlayedTracks |-> FALSE,
            playedTracks |-> << >>, lastLoggedTrack |-> 0 - 1,
            reportedTrackChange |-> FALSE]

\* the initialState object of initializeRadio for an already shuffled playlist
InitialState(shuffledPlaylist) ==
    [exists |-> TRUE, playlist |-> shuffledPlaylist, hasPlayedTracks |-> TRUE,
     playedTracks |-> << >>, lastLoggedTrack |-> 0 - 1,
     reportedTrackChange |-> FALSE]

Ids(playlist) == {playlist[i].id : i \in 1..Len(playlist)}

\* updatePlaylist on an existing state: the state it saves and returns
updatePlaylistState(state, newPlaylistItems) ==
    LET currentIds == Ids(state.playlist)
        IsNew(item) == item.id \notin currentIds
        newItems == SelectSeq(newPlaylistItems, IsNew)
    IN IF newItems = << >> THEN state
       ELSE [state EXCEPT !.playlist = state.playlist \o newItems]

----------------------------------------------------------------------------
(* SpecResolver: the resolver under a clock and under merges *)

\* playlists of n tracks with ids 1..n, in every combination of durations
PlaylistsOfLen(n) ==
    {[i \in 1..n |-> Track(i, f[i])] : f \in [1..n -> DurationValues]}

Playlists == UNION {PlaylistsOfLen(n) : n \in 1..MaxLen}

\* no reconciliation pass has been recorded yet
NoEvent == [event |-> "none"]

NoPass == [write |-> NoEvent, done |-> NoEvent]

\* stats as it is before the first write
NoStats == [exists |-> FALSE, currentListeners |-> 0,
            hasTotal |-> FALSE, totalListeners |-> 0]

NoOp == [op |-> "none"]

\* the presence variables, unused by the other specifications
PresenceIdle ==
    /\ listeners = << >>
    /\ stats = NoStats
    /\ presence = << >>
    /\ lastOp = NoOp

\* the shuffle-check variables, unused by the other specifications
ShuffleIdle ==
    /\ shGiven = << >>
    /\ shArray = << >>
    /\ shI = 0

SysIdle ==
    /\ now = T0
    /\ catalog = [ids |-> << >>, changes |-> 0]
    /\ radioState = NoState
    /\ radioServerStartTime = << >>
    /\ clients = << >>
    /\ lastPass = NoPass
    /\ online = TRUE
    /\ ShuffleIdle
    /\ PresenceIdle

RInit ==
    /\ rOrigin = T0
    /\ rNow \in {T0, T0 + PhaseMs}
    /\ \E pl \in Playlists :
          /\ rState = getCurrentTrackState(InitialState(pl), rOrigin, rNow, 0)
          /\ rInfo = getCurrentTrack(InitialState(pl), rOrigin, rNow)
    /\ rPrev = NoInfo
    /\ rOp = "init"
    /\ rMerged = FALSE
    /\ lastLogTimestamp = getCurrentTrackLog(rState, rNow, 0)
    /\ SysIdle

\* the clock advances and the client resolves again
RTick ==
    /\ rNow + StepMs <= rOrigin + PhaseMs + MaxSteps * StepMs
    /\ rNow' = rNow + StepMs
    /\ rInfo' = getCurrentTrack(rState, rOrigin, rNow')
    /\ rState' = getCurrentTrackState(rState, rOrigin, rNow', lastLogTimestamp)
    /\ lastLogTimestamp' = getCurrentTrackLog(rState, rNow', lastLogTimestamp)
    /\ rPrev' = rInfo
    /\ rOp' = "tick"
    /\ UNCHANGED <<rOrigin, rMerged, svars, xvars>>

\* a snapshot with one more track is merged and the client resolves at the
\* same instant
RMerge ==
    /\ ~rMerged
    /\ \E d \in DurationValues :
          LET items == rState.playlist \o <<Track(Len(rState.playlist) + 1, d)>>
              merged == updatePlaylistState(rState, items)
          IN /\ rInfo' = getCurrentTrack(merged, rOrigin, rNow)
             /\ rState' = getCurrentTrackState(merged, rOrigin, rNow, lastLogTimestamp)
             /\ lastLogTimestamp' = getCurrentTrackLog(merged, rNow, lastLogTimestamp)
    /\ rPrev' = rInfo
    /\ rOp' = "merge"
    /\ rMerged' = TRUE
    /\ UNCHANGED <<rOrigin, rNow, svars, xvars>>

RNext == RTick \/ RMerge

SpecResolver == RInit /\ [][RNext]_vars

----------------------------------------------------------------------------
(* SpecOrigin and Spec: the shared store, the catalog and the clients.     *)
(*                                                                         *)
(* A store access (get, set) is one atomic step at the store; the code     *)
(* that runs between two accesses of a call belongs to the step of the     *)
(* access before it.  A client runs one of its top-level calls             *)
(* (initializeFirebase, initializeRadioSystem, updateCurrentPosition,      *)
(* refreshPlaylist) at a time; the calls of different clients interleave   *)
(* at every store access.  Console logging and its bookkeeping fields are  *)
(* left to SpecResolver.  lastPass is a history variable: it tells what    *)
(* the step just taken wrote or ended as part of a reconciliation pass.    *)

Clients == {"a", "b"}

MaxId == 3
MaxCatalogChanges == 1
MaxAdvances == 1
MaxPasses == 1
ClockStepMs == 70000

\* the catalog item of an id, as fetchPlaylistItems returns it
CatalogTrack(id) == Track(id, IF id % 2 = 1 THEN PT1M ELSE PT30S)

fetchPlaylistItems(ids) == [i \in 1..Len(ids) |-> CatalogTrack(ids[i])]

\* startTime.toString(): the decimal digits of a non-negative integer
RECURSIVE toString(_)
toString(n) == IF n < 10 THEN <<n>> ELSE Append(toString(n \div 10), n % 10)

\* parseInt(str, 10) of a digit string
RECURSIVE parseInt(_)
parseInt(str) ==
    IF Len(str) = 1 THEN str[1]
    ELSE parseInt(SubSeq(str, 1, Len(str) - 1)) * 10 + str[Len(str)]

\* what the store keeps of a value written to radioState: an empty array is
\* not stored, so an empty playedTracks reads back as absent
StoreValue(state) ==
    IF ~state.exists THEN NoState
    ELSE [state EXCEPT !.hasPlayedTracks = (state.playedTracks # << >>),
                       !.lastLoggedTrack = 0 - 1,
                       !.reportedTrackChange = FALSE]

\* the state object after a getCurrentTrack that resolved `info`, without
\* the logging fields
Bookkept(state, info) ==
    [StateAfter(state, info, FALSE) EXCEPT !.lastLoggedTrack = 0 - 1,
                                           !.reportedTrackChange = FALSE]

\* localStorage's radioState after a getCurrentTrack on `state`: it is set
\* when the call changed playedTracks
Cached(old, state, kept) == IF kept # state THEN kept ELSE old

\* [array[i], array[j]] = [array[j], array[i]] with a plain assignment of
\* array[j] to array[i]
SwapOverwrite(array, i, j) == [array EXCEPT ![i + 1] = array[j + 1]]

\* [array[i], array[j]] = [array[j], array[i]], i and j 0-based
Swap(array, i, j) ==
    [array EXCEPT ![i + 1] = array[j + 1], ![j + 1] = array[i + 1]]

\* the loop of shuffleArray from index i down to 1, js[i] being the j that
\* Math.floor(Math.random() * (i + 1)) gives at index i
RECURSIVE shuffleSteps(_, _, _)
shuffleSteps(array, i, js) ==
    IF i <= 0 THEN array
    ELSE shuffleSteps(Swap(array, i, js[i]), i - 1, js)

\* the draws of one call on an array of n elements: 0 <= js[i] <= i
Draws(n) == {js \in [1..(n - 1) -> 0..(n - 1)] : \A i \in 1..(n - 1) : js[i] <= i}

\* what shuffleArray may return
shuffleArray(array) ==
    {shuffleSteps(array, Len(array) - 1, js) : js \in Draws(Len(array))}

\* the permutations of a sequence
Perms(seq) ==
    LET n == Len(seq)
    IN {[i \in 1..n |-> seq[f[i]]] :
          f \in {g \in [1..n -> 1..n] : \A i, j \in 1..n : g[i] = g[j] => i = j}}

\* the record of a store write made by a reconciliation pass: the snapshot
\* the pass fetched, the store before and after the write
WriteEvent(ev, rec, before, beforeOrigin, after, afterOrigin) ==
    [event |-> ev, items |-> rec.items,
     before |-> before, beforeOrigin |-> beforeOrigin,
     after |-> after, afterOrigin |-> afterOrigin]

\* the record of the end of a reconciliation pass: what it saw when it
\* compared, whether it reset and rebuilt, the serverStartTime.current it
\* resolved with, the origin resetRadioState kept in localStorage, the store
\* it leaves
DoneEvent(rec, after) ==
    [event |-> "done", items |-> rec.items,
     sawRemoved |-> rec.cvExists /\ ~(rec.cvIds \subseteq Ids(rec.items)),
     replaced |-> rec.replaced,
     usedOrigin |-> rec.serverStartTime,
     resetOrigin |-> rec.lsStartTime,
     after |-> after]

\* history: the playlist order a client last resolved on and the indices its
\* resolutions gave on that order
NoSeen == [playlist |-> << >>, indices |-> {}]

NewClient ==
    [pc |-> "idle",
     firebaseInitialized |-> FALSE,
     serverStartTime |-> 0,
     initRan |-> FALSE,
     currentTrack |-> 0,
     currentVideoId |-> 0,
     items |-> << >>,
     pending |-> NoState,
     stamp |-> 0,
     ret |-> "none",
     sawAbsent |-> FALSE,
     ixPc |-> "start",
     ixStamp |-> 0,
     cvIds |-> {},
     cvExists |-> FALSE,
     replaced |-> FALSE,
     passes |-> 0,
     lsStartTime |-> << >>,
     lsState |-> NoState,
     seen |-> NoSeen,
     overtaken |-> FALSE,
     ticked |-> FALSE,
     sinceArmed |-> 0,
     refreshFired |-> FALSE,
     tickNo |-> 0,
     inFlight |-> << >>,
     applied |-> 0,
     bootPc |-> "start",
     obtained |-> << >>,
     fellBack |-> << >>,
     reloads |-> 0]

\* the resolver-check variables, unused by the system specifications
ResolverIdle ==
    /\ rState = NoState
    /\ rOrigin = T0
    /\ rNow = T0
    /\ rInfo = NoInfo
    /\ rPrev = NoInfo
    /\ rOp = "init"
    /\ rMerged = FALSE
    /\ lastLogTimestamp = 0

\* a client whose getServerStartTime found the origin `origin` in the store
StartedClient(origin) ==
    [NewClient EXCEPT !.firebaseInitialized = TRUE, !.serverStartTime = origin,
                      !.ixPc = "done", !.bootPc = "done",
                      !.obtained = toString(origin)]

\* no client has started and the store is empty
InitOrigin ==
    /\ now = T0
    /\ catalog = [ids |-> <<1, 2>>, changes |-> 0]
    /\ radioState = NoState
    /\ radioServerStartTime = << >>
    /\ clients = [c \in Clients |-> NewClient]
    /\ lastPass = NoPass
    /\ online = TRUE
    /\ ShuffleIdle
    /\ PresenceIdle
    /\ ResolverIdle

\* the store holds an origin and every client has read it; no radio state yet
Init ==
    /\ now = T0
    /\ catalog = [ids |-> <<1, 2>>, changes |-> 0]
    /\ radioState = NoState
    /\ radioServerStartTime = toString(T0)
    /\ clients = [c \in Clients |-> StartedClient(T0)]
    /\ lastPass = NoPass
    /\ online = TRUE
    /\ ShuffleIdle
    /\ PresenceIdle
    /\ ResolverIdle

Set(c, rec) == clients' = [clients EXCEPT ![c] = rec]

\* ---- environment ----

Advance ==
    /\ now < T0 + MaxAdvances * ClockStepMs
    /\ now' = now + ClockStepMs
    /\ lastPass' = NoPass
    /\ UNCHANGED <<catalog, radioState, radioServerStartTime, clients, rvars, xvars>>

CatalogAdd ==
    /\ catalog.changes < MaxCatalogChanges
    /\ \E id \in 1..MaxId :
          /\ ~Includes(catalog.ids, id)
          /\ catalog' = [ids |-> Append(catalog.ids, id),
                         changes |-> catalog.changes + 1]
    /\ lastPass' = NoPass
    /\ UNCHANGED <<now, radioState, radioServerStartTime, clients, rvars, xvars>>

CatalogRemove ==
    /\ catalog.changes < MaxCatalogChanges
    /\ Len(catalog.ids) > 1
    /\ \E id \in 1..MaxId :
          /\ Includes(catalog.ids, id)
          /\ catalog' = [ids |-> SelectSeq(catalog.ids, LAMBDA x : x # id),
                         changes |-> catalog.changes + 1]
    /\ lastPass' = NoPass
    /\ UNCHANGED <<now, radioState, radioServerStartTime, clients, rvars, xvars>>

\* ---- getServerStartTime, called by initializeFirebase ----

\* the call index.js makes when the application loads; its result is dropped.
\* get(startTimeRef): an existing value is returned, else Date.now() is taken
IndexStartTimeRead(c) ==
    LET me == clients[c]
    IN /\ me.ixPc = "start"
       /\ IF radioServerStartTime # << >>
          THEN Set(c, [me EXCEPT !.ixPc = "done",
                                 !.obtained = radioServerStartTime])
          ELSE Set(c, [me EXCEPT !.ixPc = "set", !.ixStamp = now])
       /\ lastPass' = NoPass
       /\ UNCHANGED <<now, catalog, radioState, radioServerStartTime, rvars, xvars>>

\* set(startTimeRef, startTime.toString())
IndexStartTimeWrite(c) ==
    LET me == clients[c]
    IN /\ me.ixPc = "set"
       /\ radioServerStartTime' = toString(me.ixStamp)
       /\ Set(c, [me EXCEPT !.ixPc = "done", !.obtained = toString(me.ixStamp)])
       /\ lastPass' = NoPass
       /\ UNCHANGED <<now, catalog, radioState, rvars, xvars>>

\* the call of initializeFirebase, issued after the one of index.js.
\* get(startTimeRef): an existing value is returned, else Date.now() is taken
GetStartTimeRead(c) ==
    LET me == clients[c]
    IN /\ me.pc = "idle"
       /\ me.ixPc # "start"
       /\ ~me.firebaseInitialized
       /\ IF radioServerStartTime # << >>
          THEN Set(c, [me EXCEPT !.serverStartTime = parseInt(radioServerStartTime),
                                 !.firebaseInitialized = TRUE,
                                 !.obtained = radioServerStartTime])
          ELSE Set(c, [me EXCEPT !.pc = "gs_set", !.stamp = now,
                                 !.sawAbsent = TRUE])
       /\ lastPass' = NoPass
       /\ UNCHANGED <<now, catalog, radioState, radioServerStartTime, rvars, xvars>>

\* set(startTimeRef, startTime.toString()); return startTime.  A client's
\* writes reach the store in the order it issued them, so the write of its
\* index.js call comes first
GetStartTimeWrite(c) ==
    LET me == clients[c]
    IN /\ me.pc = "gs_set"
       /\ me.ixPc # "set"
       /\ radioServerStartTime' = toString(me.stamp)
       /\ Set(c, [me EXCEPT !.pc = "idle", !.serverStartTime = me.stamp,
                            !.firebaseInitialized = TRUE,
                            !.obtained = toString(me.stamp)])
       /\ lastPass' = NoPass
       /\ UNCHANGED <<now, catalog, radioState, rvars, xvars>>

\* the subscribeToServerStartTime callback
PushStartTime(c) ==
    LET me == clients[c]
    IN /\ me.firebaseInitialized
       /\ radioServerStartTime # << >>
       /\ me.serverStartTime # parseInt(radioServerStartTime)
       /\ Set(c, [me EXCEPT !.serverStartTime = parseInt(radioServerStartTime)])
       /\ lastPass' = NoPass
       /\ UNCHANGED <<now, catalog, radioState, radioServerStartTime, rvars, xvars>>

\* ---- the return of initializeRadio / updatePlaylist to its caller ----

\* the caller's code after `state` came back: initializeRadioSystem and the
\* replace branch of refreshPlaylist resolve the current track
Resolved(me, state, info) ==
    [me EXCEPT !.pc = "idle", !.ret = "none",
               !.currentTrack = IF info.ok THEN info.track.id ELSE @,
               !.lsState = IF info.ok THEN Cached(@, state, Bookkept(state, info))
                           ELSE @,
               !.pending = NoState, !.items = << >>,
               !.currentVideoId = 0, !.cvIds = {}, !.cvExists = FALSE,
               !.replaced = FALSE]

Returned(c, me, state) ==
    Resolved(me, state,
             IF me.ret \in {"init", "replace"}
             THEN getCurrentTrack(state, me.serverStartTime, now)
             ELSE NoInfo)

\* lastPass after a step of client `me` that wrote the store (ev # "none")
\* and that ended its call (ended)
Logged(me, ev, ended, before, beforeOrigin, after, afterOrigin) ==
    LET inPass == me.ret \in {"replace", "update", "refresh"}
    IN [write |-> IF inPass /\ ev # "none"
                  THEN WriteEvent(ev, me, before, beforeOrigin, after, afterOrigin)
                  ELSE NoEvent,
        done |-> IF inPass /\ ended THEN DoneEvent(me, after) ELSE NoEvent]

\* ---- initializeRadioSystem ----

\* fetchPlaylistItems, which gave items, then getRadioState
InitFetch(c) ==
    LET me == clients[c]
        items == fetchPlaylistItems(catalog.ids)
    IN /\ me.pc = "idle"
       /\ me.firebaseInitialized /\ me.serverStartTime # 0
       /\ ~me.initRan
       /\ items # << >>
       /\ IF radioState.exists
          THEN Set(c, Returned(c, [me EXCEPT !.initRan = TRUE, !.ret = "init"],
                               radioState))
          ELSE Set(c, [me EXCEPT !.initRan = TRUE, !.items = items,
                                 !.pc = "ir_read", !.ret = "init"])
       /\ lastPass' = NoPass
       /\ UNCHANGED <<now, catalog, radioState, radioServerStartTime, rvars, xvars>>

\* ---- initializeRadio(items) ----

\* getRadioState: an existing state with a playlist is returned, after its
\* playedTracks is made to exist; else the playlist is shuffled
InitRadioRead(c) ==
    LET me == clients[c]
    IN /\ me.pc = "ir_read"
       /\ IF radioState.exists /\ radioState.playlist # << >>
          THEN IF ~radioState.hasPlayedTracks
               THEN Set(c, [me EXCEPT !.pc = "ir_fix",
                               !.pending = [radioState EXCEPT
                                               !.hasPlayedTracks = TRUE,
                                               !.playedTracks = << >>]])
                    /\ lastPass' = NoPass
               ELSE /\ Set(c, Returned(c, me, radioState))
                    /\ lastPass' = Logged(me, "none", TRUE, radioState,
                                          radioServerStartTime, radioState,
                                          radioServerStartTime)
          ELSE /\ \E shuffled \in shuffleArray(me.items) :
                    Set(c, [me EXCEPT !.pc = "ir_write",
                                      !.pending = InitialState(shuffled)])
               /\ lastPass' = NoPass
       /\ UNCHANGED <<now, catalog, radioState, radioServerStartTime, rvars, xvars>>

\* set(radioState, existingState) and localStorage; return existingState
InitRadioFix(c) ==
    LET me == clients[c]
    IN /\ me.pc = "ir_fix"
       /\ radioState' = StoreValue(me.pending)
       /\ Set(c, Returned(c, [me EXCEPT !.lsState = me.pending], me.pending))
       /\ lastPass' = Logged(me, "fix", TRUE, radioState, radioServerStartTime,
                             radioState', radioServerStartTime)
       /\ UNCHANGED <<now, catalog, radioServerStartTime, rvars, xvars>>

\* set(radioState, initialState) and localStorage; return initialState
InitRadioWrite(c) ==
    LET me == clients[c]
    IN /\ me.pc = "ir_write"
       /\ radioState' = StoreValue(me.pending)
       /\ Set(c, Returned(c, [me EXCEPT !.lsState = me.pending], me.pending))
       /\ lastPass' = Logged(me, "init", TRUE, radioState, radioServerStartTime,
                             radioState', radioServerStartTime)
       /\ UNCHANGED <<now, catalog, radioServerStartTime, rvars, xvars>>

\* ---- updateCurrentPosition ----

Ticked(me, info) ==
    [me EXCEPT !.currentTrack = info.track.id,
               !.lsState = Cached(@, radioState, Bookkept(radioState, info))]

Tick(c) ==
    /\ clients[c].pc = "idle"
    /\ clients[c].firebaseInitialized /\ clients[c].serverStartTime # 0
    /\ getCurrentTrack(radioState, clients[c].serverStartTime, now).ok
    /\ Set(c, Ticked(clients[c],
                     getCurrentTrack(radioState, clients[c].serverStartTime, now)))
    /\ lastPass' = NoPass
    /\ UNCHANGED <<now, catalog, radioState, radioServerStartTime, rvars, xvars>>

\* ---- refreshPlaylist ----

\* whether checkPlaylistVersion(newItems) reports a change against `state`
checkPlaylistVersion(state, newItems) ==
    IF ~state.exists \/ state.playlist = << >> THEN TRUE
    ELSE IF Len(state.playlist) # Len(newItems) THEN TRUE
    ELSE LET currentIds == Ids(state.playlist)
             newIds == Ids(newItems)
         IN IF Cardinality(currentIds) # Cardinality(newIds) THEN TRUE
            ELSE \E id \in currentIds : id \notin newIds

\* the reconciliation passes the clients of S have started
RECURSIVE PassesStarted(_)
PassesStarted(S) ==
    IF S = {} THEN 0
    ELSE LET c == CHOOSE x \in S : TRUE
         IN clients[c].passes + PassesStarted(S \ {c})

\* the start of a pass: the current track is noted and the catalog fetched
RefreshFetch(c) ==
    LET me == clients[c]
        items == fetchPlaylistItems(catalog.ids)
    IN /\ me.pc = "idle"
       /\ me.firebaseInitialized /\ me.serverStartTime # 0
       /\ PassesStarted(Clients) < MaxPasses
       /\ items # << >>
       /\ Set(c, [me EXCEPT !.pc = "rp_check", !.ret = "refresh",
                            !.currentVideoId = me.currentTrack,
                            !.items = items, !.replaced = FALSE,
                            !.passes = me.passes + 1])
       /\ lastPass' = NoPass
       /\ UNCHANGED <<now, catalog, radioState, radioServerStartTime, rvars, xvars>>

\* checkPlaylistVersion (its getRadioState) and the choice of the branch
RefreshCheck(c) ==
    LET me == clients[c]
        playlistChanged == checkPlaylistVersion(radioState, me.items)
        currentTrackStillExists ==
            /\ me.currentVideoId # 0
            /\ \E i \in 1..Len(me.items) : me.items[i].id = me.currentVideoId
        seen == [me EXCEPT !.cvExists = radioState.exists,
                           !.cvIds = Ids(radioState.playlist)]
    IN /\ me.pc = "rp_check"
       /\ IF playlistChanged /\ ~currentTrackStillExists
          THEN Set(c, [seen EXCEPT !.pc = "rs_state", !.ret = "replace"])
          ELSE Set(c, [seen EXCEPT !.pc = "up_read", !.ret = "update"])
       /\ lastPass' = NoPass
       /\ UNCHANGED <<now, catalog, radioState, radioServerStartTime, rvars, xvars>>

\* ---- resetRadioState ----

\* set(radioState, null)
ResetState(c) ==
    LET me == clients[c]
    IN /\ me.pc = "rs_state"
       /\ radioState' = NoState
       /\ Set(c, [me EXCEPT !.pc = "rs_time", !.replaced = TRUE])
       /\ lastPass' = Logged(me, "reset", FALSE, radioState, radioServerStartTime,
                             NoState, radioServerStartTime)
       /\ UNCHANGED <<now, catalog, radioServerStartTime, rvars, xvars>>

\* set(radioServerStartTime, Date.now().toString()) and localStorage; then
\* refreshPlaylist calls initializeRadio(items)
ResetTime(c) ==
    LET me == clients[c]
    IN /\ me.pc = "rs_time"
       /\ radioServerStartTime' = toString(now)
       /\ Set(c, [me EXCEPT !.pc = "ir_read", !.lsState = NoState,
                            !.lsStartTime = toString(now),
                            !.obtained = toString(now)])
       /\ lastPass' = Logged(me, "origin", FALSE, radioState, radioServerStartTime,
                             radioState, radioServerStartTime')
       /\ UNCHANGED <<now, catalog, radioState, rvars, xvars>>

\* ---- updatePlaylist(items) ----

\* getRadioState: without a state initializeRadio takes over; without new
\* items the state is returned; else the new items are appended
UpdateRead(c) ==
    LET me == clients[c]
        merged == updatePlaylistState(radioState, me.items)
    IN /\ me.pc = "up_read"
       /\ IF ~radioState.exists
          THEN Set(c, [me EXCEPT !.pc = "ir_read"]) /\ lastPass' = NoPass
          ELSE IF merged = radioState
          THEN /\ Set(c, Returned(c, me, radioState))
               /\ lastPass' = Logged(me, "none", TRUE, radioState,
                                     radioServerStartTime, radioState,
                                     radioServerStartTime)
          ELSE Set(c, [me EXCEPT !.pc = "up_write", !.pending = merged])
               /\ lastPass' = NoPass
       /\ UNCHANGED <<now, catalog, radioState, radioServerStartTime, rvars, xvars>>

\* set(radioState, state) and localStorage; return state
UpdateWrite(c) ==
    LET me == clients[c]
    IN /\ me.pc = "up_write"
       /\ radioState' = StoreValue(me.pending)
       /\ Set(c, Returned(c, [me EXCEPT !.lsState = me.pending], me.pending))
       /\ lastPass' = Logged(me, "merge", TRUE, radioState, radioServerStartTime,
                             radioState', radioServerStartTime)
       /\ UNCHANGED <<now, catalog, radioServerStartTime, rvars, xvars>>

\* the clients start: their getServerStartTime calls interleave
NextOrigin ==
    \/ Advance
    \/ \E c \in Clients :
          \/ IndexStartTimeRead(c)
          \/ IndexStartTimeWrite(c)
          \/ GetStartTimeRead(c)
          \/ GetStartTimeWrite(c)
          \/ PushStartTime(c)

SpecOrigin == InitOrigin /\ [][NextOrigin]_vars

\* the started clients initialize, tick and reconcile
Next ==
    \/ Advance
    \/ CatalogAdd
    \/ CatalogRemove
    \/ \E c \in Clients :
          \/ PushStartTime(c)
          \/ InitFetch(c)
          \/ InitRadioRead(c)
          \/ InitRadioFix(c)
          \/ InitRadioWrite(c)
          \/ Tick(c)
          \/ RefreshFetch(c)
          \/ RefreshCheck(c)
          \/ ResetState(c)
          \/ ResetTime(c)
          \/ UpdateRead(c)
          \/ UpdateWrite(c)

Spec == Init /\ [][Next]_vars

----------------------------------------------------------------------------
(* SpecCycle: the end of a cycle.  Two started clients initialize the radio,
   tick, and handle the player's video-ended event; the store may stop and
   resume answering.  The catalog does not change. *)

\* the store stops answering: get and set reject
Outage ==
    /\ online
    /\ online' = FALSE
    /\ lastPass' = NoPass
    /\ UNCHANGED <<now, catalog, radioState, radioServerStartTime, clients, rvars, shvars, pvars>>

Restore ==
    /\ ~online
    /\ online' = TRUE
    /\ lastPass' = NoPass
    /\ UNCHANGED <<now, catalog, radioState, radioServerStartTime, clients, rvars, shvars, pvars>>

\* getRadioState as client `me` gets it: the store's value, or localStorage's
\* radioState when get rejects
getRadioState(me) == IF online THEN radioState ELSE me.lsState

Seen(seen, state, info) ==
    [playlist |-> state.playlist,
     indices |-> IF seen.playlist = state.playlist
                 THEN seen.indices \cup {info.index}
                 ELSE {info.index}]

\* setCurrentTrack after getCurrentTrack(state, serverStartTime.current) gave
\* `info`; getCurrentTrack saved the state object to localStorage if it
\* changed playedTracks
Positioned(me, state, info) ==
    [me EXCEPT !.pc = "idle",
               !.currentTrack = info.track.id,
               !.lsState = Cached(@, state, Bookkept(state, info)),
               !.seen = Seen(@, state, info),
               !.pending = NoState, !.items = << >>, !.overtaken = FALSE]

\* what onPlayerStateChange and the timer do with the state they got
Reposition(c, me, state, info) ==
    IF state.exists /\ info.ok
    THEN Set(c, Positioned(me, state, info))
    ELSE Set(c, [me EXCEPT !.pc = "idle", !.pending = NoState, !.items = << >>,
                           !.overtaken = FALSE])

\* state.playedTracks && state.playedTracks.length >= state.playlist.length
CycleComplete(state) ==
    /\ state.exists
    /\ state.hasPlayedTracks
    /\ Len(state.playedTracks) >= Len(state.playlist)

\* the timer's updateCurrentPosition
CycleTick(c) ==
    LET me == clients[c]
    IN /\ me.pc = "idle"
       /\ me.firebaseInitialized /\ me.serverStartTime # 0
       /\ \E info \in {getCurrentTrack(getRadioState(me), me.serverStartTime, now)} :
             /\ info.ok
             /\ Set(c, Positioned(me, getRadioState(me), info))
       /\ lastPass' = NoPass
       /\ UNCHANGED <<now, catalog, radioState, radioServerStartTime, rvars, xvars>>

\* onPlayerStateChange with event.data === 0: getRadioState; a complete
\* playedTracks leads to checkAndResetPlayedTracks, else the track is resolved
VideoEnded(c) ==
    LET me == clients[c]
    IN /\ me.pc = "idle"
       /\ me.firebaseInitialized /\ me.serverStartTime # 0
       /\ getRadioState(me).exists
       /\ IF CycleComplete(getRadioState(me))
          THEN Set(c, [me EXCEPT !.pc = "ve_check"])
          ELSE \E info \in {getCurrentTrack(getRadioState(me),
                                              me.serverStartTime, now)} :
                  Reposition(c, me, getRadioState(me), info)
       /\ lastPass' = NoPass
       /\ UNCHANGED <<now, catalog, radioState, radioServerStartTime, rvars, xvars>>

\* the state object checkAndResetPlayedTracks saves: the playlist shuffled
\* again, playedTracks emptied
Reshuffled(state, reshuffledPlaylist) ==
    [state EXCEPT !.playlist = reshuffledPlaylist,
                  !.hasPlayedTracks = TRUE,
                  !.playedTracks = << >>]

\* checkAndResetPlayedTracks up to its set: getRadioState, return unless
\* playedTracks is complete, shuffleArray([...state.playlist])
CheckRead(c) ==
    LET me == clients[c]
    IN /\ me.pc = "ve_check"
       /\ IF CycleComplete(getRadioState(me))
          THEN \E reshuffledPlaylist \in shuffleArray(getRadioState(me).playlist) :
                  Set(c, [me EXCEPT !.pc = "cr_write",
                                    !.items = getRadioState(me).playlist,
                                    !.pending = Reshuffled(getRadioState(me),
                                                           reshuffledPlaylist)])
          ELSE Set(c, [me EXCEPT !.pc = "ve_fresh"])
       /\ lastPass' = NoPass
       /\ UNCHANGED <<now, catalog, radioState, radioServerStartTime, rvars, xvars>>

\* the catch branch of checkAndResetPlayedTracks: localStorage's radioState is
\* shuffled again if its playedTracks is complete
CheckLocal(c, me) ==
    IF CycleComplete(me.lsState)
    THEN \E reshuffledPlaylist \in shuffleArray(me.lsState.playlist) :
            Set(c, [me EXCEPT !.pc = "ve_fresh",
                              !.lsState = Reshuffled(@, reshuffledPlaylist)])
    ELSE Set(c, [me EXCEPT !.pc = "ve_fresh"])

\* a new cycle starts: the history of every other client is dropped, and a
\* client that is about to write its own reshuffle has been overtaken
NewCycle(c, rec) ==
    clients' = [d \in Clients |->
                  IF d = c THEN rec
                  ELSE [clients[d] EXCEPT !.seen = NoSeen,
                                          !.overtaken = (@ \/ clients[d].pc = "cr_write")]]

\* the record of a store write made by checkAndResetPlayedTracks: the order
\* the caller read, whether another caller's reshuffle landed since, the
\* store before and after the write
ReshuffleEvent(rec, before, after) ==
    [event |-> "reshuffle", items |-> rec.items, overtaken |-> rec.overtaken,
     before |-> before, after |-> after]

\* set(radioState, state) and localStorage of checkAndResetPlayedTracks; when
\* set rejects, the catch branch runs
CheckWrite(c) ==
    LET me == clients[c]
    IN /\ me.pc = "cr_write"
       /\ IF online
          THEN /\ radioState' = StoreValue(me.pending)
               /\ NewCycle(c, [me EXCEPT !.pc = "ve_fresh",
                                         !.lsState = me.pending,
                                         !.seen = NoSeen])
               /\ lastPass' = [write |-> ReshuffleEvent(me, radioState, radioState'),
                               done |-> NoEvent]
          ELSE /\ CheckLocal(c, me)
               /\ lastPass' = NoPass
               /\ UNCHANGED radioState
       /\ UNCHANGED <<now, catalog, radioServerStartTime, rvars, xvars>>

\* onPlayerStateChange after checkAndResetPlayedTracks returned: a fresh
\* getRadioState, getCurrentTrack, setCurrentTrack
VideoFresh(c) ==
    LET me == clients[c]
    IN /\ me.pc = "ve_fresh"
       /\ \E info \in {getCurrentTrack(getRadioState(me), me.serverStartTime, now)} :
             Reposition(c, me, getRadioState(me), info)
       /\ lastPass' = NoPass
       /\ UNCHANGED <<now, catalog, radioState, radioServerStartTime, rvars, xvars>>

\* what the runtime schedules by itself for client c: initializeRadioSystem
\* (it runs while the store answers), the timer, and the continuation of a
\* call that awaits
ClientRuns(c) ==
    \/ online /\ InitFetch(c)
    \/ online /\ InitRadioRead(c)
    \/ online /\ InitRadioFix(c)
    \/ online /\ InitRadioWrite(c)
    \/ CycleTick(c)
    \/ CheckRead(c)
    \/ CheckWrite(c)
    \/ VideoFresh(c)

NextCycle ==
    \/ Advance
    \/ Outage
    \/ Restore
    \/ \E c \in Clients : ClientRuns(c) \/ VideoEnded(c)

SpecCycle == Init /\ [][NextCycle]_vars

\* the clock runs; the timer of each client fires again and again and its
\* awaited calls continue; the player reports the end of a video
CycleFairness ==
    /\ WF_vars(Advance)
    /\ \A c \in Clients : WF_vars(ClientRuns(c))
    /\ WF_vars(\E c \in Clients : VideoEnded(c))

SpecCycleFair == Init /\ [][NextCycle]_vars /\ CycleFairness

----------------------------------------------------------------------------
(* SpecShuffle: shuffleArray on every array of up to MaxShuffleLen tracks,
   ids repeated or not, one iteration of its loop per step *)

RECURSIVE IdSeqs(_)
IdSeqs(n) ==
    IF n = 0 THEN {<< >>}
    ELSE {Append(ids, id) : ids \in IdSeqs(n - 1), id \in 1..MaxId}

ShuffleInputs ==
    UNION {{fetchPlaylistItems(ids) : ids \in IdSeqs(n)} : n \in 0..MaxShuffleLen}

\* shuffleArray(array) is called: let i = array.length - 1
ShuffleInit ==
    /\ shGiven \in ShuffleInputs
    /\ shArray = shGiven
    /\ shI = Len(shGiven) - 1
    /\ now = T0
    /\ catalog = [ids |-> << >>, changes |-> 0]
    /\ radioState = NoState
    /\ radioServerStartTime = << >>
    /\ clients = << >>
    /\ lastPass = NoPass
    /\ online = TRUE
    /\ PresenceIdle
    /\ ResolverIdle

\* one iteration: i > 0, j = Math.floor(Math.random() * (i + 1)), swap, i--
ShuffleStep ==
    /\ shI > 0
    /\ \E j \in 0..shI : shArray' = Swap(shArray, shI, j)
    /\ shI' = shI - 1
    /\ UNCHANGED <<shGiven, rvars, svars, online, pvars>>

SpecShuffle == ShuffleInit /\ [][ShuffleStep]_vars

----------------------------------------------------------------------------
(* SpecLife: the life of the radio state after both clients initialized it:
   ticks, video-ended events and reshuffles as in SpecCycle, catalog changes
   and reconciliation passes as in Spec.  A pass runs while the store
   answers. *)

\* both clients ran initializeRadioSystem at T0: the store holds the state one
\* of them wrote, each resolved its first track
InitLife ==
    /\ now = T0
    /\ catalog = [ids |-> <<1, 2>>, changes |-> 0]
    /\ \E shuffled \in shuffleArray(fetchPlaylistItems(<<1, 2>>)) :
          radioState = StoreValue(InitialState(shuffled))
    /\ radioServerStartTime = toString(T0)
    /\ clients = [c \in Clients |->
                    Resolved([StartedClient(T0) EXCEPT !.initRan = TRUE],
                             radioState, getCurrentTrack(radioState, T0, T0))]
    /\ lastPass = NoPass
    /\ online = TRUE
    /\ ShuffleIdle
    /\ PresenceIdle
    /\ ResolverIdle

NextLife ==
    \/ Advance
    \/ Outage
    \/ Restore
    \/ online /\ CatalogAdd
    \/ online /\ CatalogRemove
    \/ \E c \in Clients :
          \/ CycleTick(c)
          \/ VideoEnded(c)
          \/ CheckRead(c)
          \/ CheckWrite(c)
          \/ VideoFresh(c)
          \/ online /\ InitRadioRead(c)
          \/ online /\ InitRadioFix(c)
          \/ online /\ InitRadioWrite(c)
          \/ online /\ PushStartTime(c)
          \/ online /\ RefreshFetch(c)
          \/ online /\ RefreshCheck(c)
          \/ online /\ ResetState(c)
          \/ online /\ ResetTime(c)
          \/ online /\ UpdateRead(c)
          \/ online /\ UpdateWrite(c)

SpecLife == InitLife /\ [][NextLife]_vars

----------------------------------------------------------------------------
(* SpecRefresh: reconciliation passes whose catalog fetch fails.  It is Spec
   with an upstream catalog that may also be emptied and with fetches that
   may throw. *)

\* the upstream playlist loses all its videos
CatalogClear ==
    /\ catalog.changes < MaxCatalogChanges
    /\ catalog.ids # << >>
    /\ catalog' = [ids |-> << >>, changes |-> catalog.changes + 1]
    /\ lastPass' = NoPass
    /\ UNCHANGED <<now, radioState, radioServerStartTime, clients, rvars, xvars>>

\* the record of a pass that ended at its fetch: how the fetch ended and the
\* store the pass found
FailedEvent(outcome, before, beforeOrigin) ==
    [event |-> "failed", outcome |-> outcome,
     before |-> before, beforeOrigin |-> beforeOrigin]

\* a pass that removes the radio state on its way out
RefreshFailsResets(c) ==
    LET me == clients[c]
        items == fetchPlaylistItems(catalog.ids)
    IN /\ me.pc = "idle"
       /\ me.firebaseInitialized /\ me.serverStartTime # 0
       /\ \E outcome \in {"throws"} \cup (IF items = << >> THEN {"empty"} ELSE {}) :
             lastPass' = [write |-> NoEvent,
                          done |-> FailedEvent(outcome, radioState,
                                               radioServerStartTime)]
       /\ radioState' = NoState
       /\ UNCHANGED <<now, catalog, radioServerStartTime, clients, rvars, xvars>>

\* refreshPlaylist whose fetchPlaylistItems throws (the catch logs and sets
\* the error) or returns no item (setError, return): the pass ends there
RefreshFails(c) ==
    LET me == clients[c]
        items == fetchPlaylistItems(catalog.ids)
    IN /\ me.pc = "idle"
       /\ me.firebaseInitialized /\ me.serverStartTime # 0
       /\ \E outcome \in {"throws"} \cup (IF items = << >> THEN {"empty"} ELSE {}) :
             lastPass' = [write |-> NoEvent,
                          done |-> FailedEvent(outcome, radioState,
                                               radioServerStartTime)]
       /\ UNCHANGED <<now, catalog, radioState, radioServerStartTime, clients,
                      rvars, xvars>>

NextRefresh ==
    \/ Advance
    \/ CatalogAdd
    \/ CatalogRemove
    \/ CatalogClear
    \/ \E c \in Clients :
          \/ PushStartTime(c)
          \/ InitFetch(c)
          \/ Tick(c)
          \/ RefreshFetch(c)
          \/ RefreshFails(c)
          \/ RefreshCheck(c)
          \/ ResetState(c)
          \/ ResetTime(c)
          \/ InitRadioRead(c)
          \/ InitRadioFix(c)
          \/ InitRadioWrite(c)
          \/ UpdateRead(c)
          \/ UpdateWrite(c)

SpecRefresh == Init /\ [][NextRefresh]_vars

----------------------------------------------------------------------------
(* SpecTimers: the timers of the tick/refresh effect.  The effect depends on
   [currentTrack, isLoading, firebaseInitialized]: whenever one of them
   changes React runs its cleanup, which clears the three intervals, and
   runs it again, which arms them anew.  The clock moves in steps of
   TimerStepMs and is kept modulo the length of the playlist, which is all
   getCurrentTrack uses of it; the one-second timer of every client runs
   within each step.  The catalog does not change. *)

TimerStepMs == 30000

\* setInterval(() => refreshPlaylist(), 5 * 60 * 1000)
REFRESH_INTERVAL == 5 * 60 * 1000

\* the radio plays a playlist of two tracks or of one; both clients have
\* initialized and armed their timers
InitTimers ==
    /\ now = T0
    /\ \E ids \in {<<1, 2>>, <<1>>} :
          /\ catalog = [ids |-> ids, changes |-> 0]
          /\ \E shuffled \in shuffleArray(fetchPlaylistItems(ids)) :
                radioState = StoreValue(InitialState(shuffled))
    /\ radioServerStartTime = toString(T0)
    /\ clients = [c \in Clients |->
                    Resolved([StartedClient(T0) EXCEPT !.initRan = TRUE,
                                                       !.ticked = TRUE],
                             radioState, getCurrentTrack(radioState, T0, T0))]
    /\ lastPass = NoPass
    /\ online = TRUE
    /\ ShuffleIdle
    /\ PresenceIdle
    /\ ResolverIdle

\* TimerStepMs pass: every one-second timer has run meanwhile, and an
\* interval that is due fires before the clock goes on
TimerClock ==
    /\ \A c \in Clients : clients[c].ticked
    /\ \A c \in Clients : clients[c].sinceArmed < REFRESH_INTERVAL
    /\ now' = T0 + ((now - T0 + TimerStepMs)
                       % totalPlaylistDuration(radioState.playlist))
    /\ clients' = [c \in Clients |->
                     [clients[c] EXCEPT !.ticked = FALSE,
                                        !.sinceArmed = @ + TimerStepMs]]
    /\ lastPass' = NoPass
    /\ UNCHANGED <<catalog, radioState, radioServerStartTime, rvars, xvars>>

\* updateCurrentPosition from the one-second timer; setCurrentTrack with
\* another track runs the effect again: clearInterval, setInterval
TimerTicked(me, info) ==
    [Ticked(me, info) EXCEPT
        !.ticked = TRUE,
        !.sinceArmed = IF info.track.id # me.currentTrack THEN 0 ELSE @]

TimerTick(c) ==
    /\ ~clients[c].ticked
    /\ \E info \in {getCurrentTrack(radioState, clients[c].serverStartTime, now)} :
          /\ info.ok
          /\ Set(c, TimerTicked(clients[c], info))
    /\ lastPass' = NoPass
    /\ UNCHANGED <<now, catalog, radioState, radioServerStartTime, rvars, xvars>>

\* playlistRefreshInterval fires: refreshPlaylist() starts; its
\* setIsLoading runs the effect again
RefreshTimerFires(c) ==
    /\ clients[c].sinceArmed >= REFRESH_INTERVAL
    /\ Set(c, [clients[c] EXCEPT !.refreshFired = TRUE, !.sinceArmed = 0])
    /\ lastPass' = NoPass
    /\ UNCHANGED <<now, catalog, radioState, radioServerStartTime, rvars, xvars>>

\* what the timers of client c do by themselves
TimersRun(c) == TimerTick(c) \/ RefreshTimerFires(c)

NextTimers ==
    \/ TimerClock
    \/ \E c \in Clients : TimersRun(c)

\* time passes and armed timers fire
TimersFairness ==
    /\ WF_vars(TimerClock)
    /\ \A c \in Clients : WF_vars(TimersRun(c))

SpecTimers == InitTimers /\ [][NextTimers]_vars /\ TimersFairness

----------------------------------------------------------------------------
(* SpecTick: the position ticks of a client, with the store read of
   updateCurrentPosition as a request and its answer.  setInterval calls
   updateCurrentPosition every second whatever became of the call before;
   the answers of one client's reads come back in the order of the
   requests.  Ticks are numbered in the order they start. *)

MaxTicks == 3
MaxInFlight == 2

\* setInterval (or the effect itself) calls updateCurrentPosition: the
\* guards pass and getRadioState is awaited
TickStart(c) ==
    LET me == clients[c]
    IN /\ me.firebaseInitialized /\ me.serverStartTime # 0
       /\ me.tickNo < MaxTicks
       /\ Len(me.inFlight) < MaxInFlight
       /\ Set(c, [me EXCEPT !.tickNo = @ + 1,
                            !.inFlight = Append(@, me.tickNo + 1)])
       /\ lastPass' = NoPass
       /\ UNCHANGED <<now, catalog, radioState, radioServerStartTime, rvars, xvars>>

\* the state object is back: getCurrentTrack, setCurrentPosition,
\* setCurrentTrack
TickApplied(me, info) ==
    [(IF info.ok THEN Ticked(me, info) ELSE me) EXCEPT
        !.inFlight = Tail(@),
        !.applied = Head(me.inFlight)]

TickReturn(c) ==
    /\ clients[c].inFlight # << >>
    /\ \E info \in {getCurrentTrack(radioState, clients[c].serverStartTime, now)} :
          Set(c, TickApplied(clients[c], info))
    /\ lastPass' = NoPass
    /\ UNCHANGED <<now, catalog, radioState, radioServerStartTime, rvars, xvars>>

NextTick ==
    \/ Advance
    \/ \E c \in Clients : TickStart(c) \/ TickReturn(c)

SpecTick == InitLife /\ [][NextTick]_vars

----------------------------------------------------------------------------
(* SpecBoot: the page loads.  index.js calls getServerStartTime() and
   refreshPlaylistOnStartup(), then App mounts: initializeFirebase and
   initializeRadioSystem.  The calls of a page interleave with those of the
   other page at every store access; the accesses of one page reach the
   store in the order the page issued them, so the getRadioState of
   refreshPlaylistOnStartup comes before the read of initializeFirebase, and
   the set(radioState, null) it leads to before the reads of
   initializeRadioSystem.  The store answers throughout. *)

\* refreshPlaylistOnStartup: getRadioState(); without a state resetRadioState
\* is called.  The read is issued after the one of getServerStartTime()
BootRead(c) ==
    LET me == clients[c]
    IN /\ me.bootPc = "start"
       /\ me.ixPc # "start"
       /\ Set(c, [me EXCEPT !.bootPc = IF getRadioState(me).exists
                                       THEN "done" ELSE "rs_state"])
       /\ lastPass' = NoPass
       /\ UNCHANGED <<now, catalog, radioState, radioServerStartTime, rvars, xvars>>

\* resetRadioState called by refreshPlaylistOnStartup: set(radioState, null)
BootResetState(c) ==
    LET me == clients[c]
    IN /\ me.bootPc = "rs_state"
       /\ online
       /\ radioState' = NoState
       /\ Set(c, [me EXCEPT !.bootPc = "rs_time"])
       /\ lastPass' = NoPass
       /\ UNCHANGED <<now, catalog, radioServerStartTime, rvars, xvars>>

\* set(radioServerStartTime, Date.now().toString()) and localStorage
BootResetTime(c) ==
    LET me == clients[c]
    IN /\ me.bootPc = "rs_time"
       /\ online
       /\ me.ixPc # "set"
       /\ radioServerStartTime' = toString(now)
       /\ Set(c, [me EXCEPT !.bootPc = "done", !.lsState = NoState,
                            !.lsStartTime = toString(now),
                            !.obtained = toString(now)])
       /\ lastPass' = NoPass
       /\ UNCHANGED <<now, catalog, radioState, rvars, xvars>>

NextBoot ==
    \/ Advance
    \/ \E c \in Clients :
          \/ IndexStartTimeRead(c)
          \/ IndexStartTimeWrite(c)
          \/ BootRead(c)
          \/ BootResetState(c)
          \/ BootResetTime(c)
          \/ clients[c].bootPc # "start" /\ GetStartTimeRead(c)
          \/ GetStartTimeWrite(c)
          \/ clients[c].bootPc \notin {"start", "rs_state"} /\ InitFetch(c)
          \/ InitRadioRead(c)
          \/ InitRadioFix(c)
          \/ InitRadioWrite(c)
          \/ Tick(c)

SpecBoot == InitOrigin /\ [][NextBoot]_vars

----------------------------------------------------------------------------
(* SpecFallback: the origin when the store stops answering.  Pages are
   loaded, for the first time or again, while the store goes away and comes
   back; localStorage outlives a page.  The field obtained is history: the origin the client last read
   from, or wrote to, the store; fellBack is history too: what the client's
   last getServerStartTime returned from its catch during this outage. *)

MaxLoads == 2

\* a browser whose page is not open
ClosedPage == [NewClient EXCEPT !.pc = "closed", !.ixPc = "done",
                                !.bootPc = "done"]

\* the page loads so far, of all clients together
RECURSIVE LoadsStarted(_)
LoadsStarted(S) ==
    IF S = {} THEN 0
    ELSE LET c == CHOOSE x \in S : TRUE
         IN clients[c].reloads + LoadsStarted(S \ {c})

\* an origin an earlier visit may have left in localStorage
OldOrigin == T0 - ClockStepMs

\* the store may hold an origin and a radio state; localStorage may hold an
\* origin of an earlier visit
InitFallback ==
    /\ now = T0
    /\ catalog = [ids |-> <<1, 2>>, changes |-> 0]
    /\ radioState \in {NoState,
                       StoreValue(InitialState(fetchPlaylistItems(<<1, 2>>)))}
    /\ radioServerStartTime \in {<< >>, toString(T0)}
    /\ clients \in [Clients ->
                      {[ClosedPage EXCEPT !.lsStartTime = ls] :
                          ls \in {<< >>, toString(OldOrigin)}}]
    /\ lastPass = NoPass
    /\ online = TRUE
    /\ ShuffleIdle
    /\ PresenceIdle
    /\ ResolverIdle

\* the store answers again
OutageEnds ==
    /\ ~online
    /\ online' = TRUE
    /\ clients' = [c \in Clients |-> [clients[c] EXCEPT !.fellBack = << >>]]
    /\ lastPass' = NoPass
    /\ UNCHANGED <<now, catalog, radioState, radioServerStartTime, rvars,
                   shvars, pvars>>

\* the page is loaded, or loaded again: the module state is new,
\* localStorage stays
Reload(c) ==
    LET me == clients[c]
    IN /\ LoadsStarted(Clients) < MaxLoads
       /\ Set(c, [NewClient EXCEPT !.lsStartTime = me.lsStartTime,
                                   !.lsState = me.lsState,
                                   !.obtained = me.obtained,
                                   !.fellBack = me.fellBack,
                                   !.reloads = me.reloads + 1])
       /\ lastPass' = NoPass
       /\ UNCHANGED <<now, catalog, radioState, radioServerStartTime, rvars, xvars>>

\* the catch of getServerStartTime: the stored origin, or a new one that is
\* stored
LocalOrigin(me, t) ==
    IF me.lsStartTime = << >> THEN t ELSE parseInt(me.lsStartTime)

FellBack(me, t) ==
    [me EXCEPT !.lsStartTime = toString(LocalOrigin(me, t)),
               !.fellBack = toString(LocalOrigin(me, t))]

\* getServerStartTime of index.js: its get, or its set, rejects
IndexStartTimeFallback(c) ==
    LET me == clients[c]
    IN /\ ~online
       /\ me.ixPc \in {"start", "set"}
       /\ Set(c, [FellBack(me, now) EXCEPT !.ixPc = "done"])
       /\ lastPass' = NoPass
       /\ UNCHANGED <<now, catalog, radioState, radioServerStartTime, rvars, xvars>>

\* getServerStartTime of initializeFirebase: its get, or its set, rejects
GetStartTimeFallback(c) ==
    LET me == clients[c]
    IN /\ ~online
       /\ \/ me.pc = "idle" /\ me.ixPc # "start" /\ ~me.firebaseInitialized
          \/ me.pc = "gs_set" /\ me.ixPc # "set"
       /\ Set(c, [FellBack(me, now) EXCEPT
                     !.pc = "idle",
                     !.serverStartTime = LocalOrigin(me, now),
                     !.firebaseInitialized = TRUE])
       /\ lastPass' = NoPass
       /\ UNCHANGED <<now, catalog, radioState, radioServerStartTime, rvars, xvars>>

\* the catch of resetRadioState, called by refreshPlaylistOnStartup: one of
\* its set() calls rejects
BootResetLocal(c) ==
    LET me == clients[c]
    IN /\ ~online
       /\ me.bootPc \in {"rs_state", "rs_time"}
       /\ Set(c, [me EXCEPT !.bootPc = "done", !.lsState = NoState,
                            !.lsStartTime = toString(now)])
       /\ lastPass' = NoPass
       /\ UNCHANGED <<now, catalog, radioState, radioServerStartTime, rvars, xvars>>

NextFallback ==
    \/ Advance
    \/ Outage
    \/ OutageEnds
    \/ \E c \in Clients :
          \/ Reload(c)
          \/ online /\ IndexStartTimeRead(c)
          \/ online /\ IndexStartTimeWrite(c)
          \/ IndexStartTimeFallback(c)
          \/ BootRead(c)
          \/ BootResetState(c)
          \/ BootResetTime(c)
          \/ BootResetLocal(c)
          \/ online /\ GetStartTimeRead(c)
          \/ online /\ GetStartTimeWrite(c)
          \/ GetStartTimeFallback(c)

SpecFallback == InitFallback /\ [][NextFallback]_vars

----------------------------------------------------------------------------
(* SpecPoll: the clients without their subscriptions.  Both have initialized
   the radio; the onValue callbacks of subscribeToRadioState and
   subscribeToServerStartTime never run.  What is left is the one-second
   timer and the reconciliation passes.  initializeRadio is only called by a
   pass that has just removed the radio state, and passes do not overlap
   here, so its branch for a state without playedTracks is never taken. *)

\* what the runtime does for client c by itself: the timer calls
\* updateCurrentPosition, awaited calls continue
PollRuns(c) ==
    \/ CycleTick(c)
    \/ RefreshCheck(c)
    \/ ResetState(c)
    \/ ResetTime(c)
    \/ InitRadioRead(c)
    \/ InitRadioWrite(c)
    \/ UpdateRead(c)
    \/ UpdateWrite(c)

NextPoll ==
    \/ Advance
    \/ CatalogAdd
    \/ CatalogRemove
    \/ \E c \in Clients : RefreshFetch(c) \/ PollRuns(c)

\* setInterval(updateCurrentPosition, 1000) keeps firing and awaited calls
\* return
PollFairness == \A c \in Clients : WF_vars(PollRuns(c))

SpecPoll == InitLife /\ [][NextPoll]_vars /\ PollFairness

----------------------------------------------------------------------------
(* SpecPresence: the listener presence tracker.  Each client is one page
   load with its own sessionId; its StatsDisplay mounts, which calls
   registerListener and starts the cleanup timer, and later unmounts, which
   calls unregisterListener, or the client stops without a signal.  Every
   await of a call is a step of its own. *)

INACTIVE_THRESHOLD == 5 * 60 * 1000

\* a key of listeners that was never written
NoListener == [exists |-> FALSE, hasTimestamp |-> FALSE, timestamp |-> 0,
               active |-> FALSE]

NewSession ==
    [life |-> "new",
     regPc |-> "idle", regHasTotal |-> FALSE, regTotal |-> 0, regCount |-> 0,
     unPc |-> "idle", unCount |-> 0,
     clPc |-> "idle", clQueue |-> << >>, clCount |-> 0, clNow |-> 0,
     clBefore |-> << >>, clAlone |-> FALSE, clRuns |-> 0]

\* the order in which Object.entries(listeners) gives the session ids
SessionOrder == <<"a", "b">>

InitPresence ==
    /\ listeners = [id \in Clients |-> NoListener]
    /\ stats = NoStats
    /\ presence = [c \in Clients |-> NewSession]
    /\ lastOp = NoOp
    /\ now = T0
    /\ catalog = [ids |-> << >>, changes |-> 0]
    /\ radioState = NoState
    /\ radioServerStartTime = << >>
    /\ clients = << >>
    /\ lastPass = NoPass
    /\ online = TRUE
    /\ ShuffleIdle
    /\ ResolverIdle

\* listener.active === true, counted over the listeners snapshot
activeListenersCount(snapshot) ==
    Cardinality({id \in Clients : snapshot[id].exists /\ snapshot[id].active})

\* listener.timestamp && now - listenerTime > INACTIVE_THRESHOLD
Stale(listener, t) ==
    listener.hasTimestamp /\ t - listener.timestamp > INACTIVE_THRESHOLD

\* a call of the client is between its first and its last store access
InFlight(p) ==
    \/ p.regPc \notin {"idle", "done", "failed"}
    \/ p.unPc \notin {"idle", "done"}
    \/ p.clPc # "idle"

\* history: a cleanup that is under way has had company, except the one of
\* client c when the step is its own; what it read is then of no use
Disturbed(P, c, own) ==
    [d \in Clients |-> IF d = c /\ own THEN P[d]
                       ELSE [P[d] EXCEPT !.clAlone = FALSE, !.clNow = 0,
                                         !.clBefore = << >>]]

PStep(c, rec, own) ==
    presence' = Disturbed([presence EXCEPT ![c] = rec], c, own)

\* the clock
PresenceAdvance ==
    /\ now < T0 + MaxPresenceSteps * PresenceStepMs
    /\ now' = now + PresenceStepMs
    /\ lastOp' = NoOp
    /\ UNCHANGED <<listeners, stats, presence>>
    /\ UNCHANGED <<catalog, radioState, radioServerStartTime, clients, lastPass,
                   rvars, online, shvars>>

\* StatsDisplay mounts: registerListener() is called
Mount(c) ==
    /\ presence[c].life = "new"
    /\ PStep(c, [presence[c] EXCEPT !.life = "mounted", !.regPc = "get_stats"],
             FALSE)
    /\ lastOp' = NoOp
    /\ UNCHANGED <<listeners, stats>>
    /\ UNCHANGED <<now, catalog, radioState, radioServerStartTime, clients,
                   lastPass, rvars, online, shvars>>

\* registerListener: get(statsRef)
RegisterGetStats(c) ==
    /\ presence[c].regPc = "get_stats"
    /\ PStep(c, [presence[c] EXCEPT
                    !.regPc = "set_listener",
                    !.regHasTotal = (~stats.exists \/ stats.hasTotal),
                    !.regTotal = stats.totalListeners], FALSE)
    /\ lastOp' = NoOp
    /\ UNCHANGED <<listeners, stats>>
    /\ UNCHANGED <<now, catalog, radioState, radioServerStartTime, clients,
                   lastPass, rvars, online, shvars>>

\* registerListener: set(listeners/sessionId, {timestamp, active: true})
RegisterSetListener(c) ==
    /\ presence[c].regPc = "set_listener"
    /\ listeners' = [listeners EXCEPT ![c] =
                        [exists |-> TRUE, hasTimestamp |-> TRUE,
                         timestamp |-> now, active |-> TRUE]]
    /\ PStep(c, [presence[c] EXCEPT !.regPc = "get_listeners"], FALSE)
    /\ lastOp' = NoOp
    /\ UNCHANGED stats
    /\ UNCHANGED <<now, catalog, radioState, radioServerStartTime, clients,
                   lastPass, rvars, online, shvars>>

\* registerListener: get(listenersRef), count the active ones
RegisterCount(c) ==
    /\ presence[c].regPc = "get_listeners"
    /\ PStep(c, [presence[c] EXCEPT
                    !.regPc = "set_stats",
                    !.regCount = activeListenersCount(listeners)], FALSE)
    /\ lastOp' = NoOp
    /\ UNCHANGED <<listeners, stats>>
    /\ UNCHANGED <<now, catalog, radioState, radioServerStartTime, clients,
                   lastPass, rvars, online, shvars>>

\* registerListener: set(statsRef, {currentListeners, totalListeners + 1});
\* when the stats it read had no totalListeners the sum is NaN, set throws
\* and the call returns false
RegisterSetStats(c) ==
    /\ presence[c].regPc = "set_stats"
    /\ IF presence[c].regHasTotal
       THEN /\ stats' = [exists |-> TRUE,
                         currentListeners |-> presence[c].regCount,
                         hasTotal |-> TRUE,
                         totalListeners |-> presence[c].regTotal + 1]
            /\ PStep(c, [presence[c] EXCEPT !.regPc = "done"], FALSE)
       ELSE /\ UNCHANGED stats
            /\ PStep(c, [presence[c] EXCEPT !.regPc = "failed"], FALSE)
    /\ lastOp' = NoOp
    /\ UNCHANGED listeners
    /\ UNCHANGED <<now, catalog, radioState, radioServerStartTime, clients,
                   lastPass, rvars, online, shvars>>

\* StatsDisplay unmounts: the timer is cleared, unregisterListener() is called
Unmount(c) ==
    /\ presence[c].life = "mounted"
    /\ PStep(c, [presence[c] EXCEPT !.life = "unmounted",
                                    !.unPc = "set_inactive"], FALSE)
    /\ lastOp' = NoOp
    /\ UNCHANGED <<listeners, stats>>
    /\ UNCHANGED <<now, catalog, radioState, radioServerStartTime, clients,
                   lastPass, rvars, online, shvars>>

\* unregisterListener: set(listeners/sessionId/active, false)
UnregisterSetInactive(c) ==
    /\ presence[c].unPc = "set_inactive"
    /\ listeners' = [listeners EXCEPT ![c].exists = TRUE, ![c].active = FALSE]
    /\ PStep(c, [presence[c] EXCEPT !.unPc = "get_listeners"], FALSE)
    /\ lastOp' = NoOp
    /\ UNCHANGED stats
    /\ UNCHANGED <<now, catalog, radioState, radioServerStartTime, clients,
                   lastPass, rvars, online, shvars>>

\* unregisterListener: get(listenersRef), count the active ones
UnregisterCount(c) ==
    /\ presence[c].unPc = "get_listeners"
    /\ PStep(c, [presence[c] EXCEPT
                    !.unPc = "set_stats",
                    !.unCount = activeListenersCount(listeners)], FALSE)
    /\ lastOp' = NoOp
    /\ UNCHANGED <<listeners, stats>>
    /\ UNCHANGED <<now, catalog, radioState, radioServerStartTime, clients,
                   lastPass, rvars, online, shvars>>

\* unregisterListener: set(stats/currentListeners, activeListenersCount)
UnregisterSetStats(c) ==
    /\ presence[c].unPc = "set_stats"
    /\ stats' = [stats EXCEPT !.exists = TRUE,
                              !.currentListeners = presence[c].unCount]
    /\ PStep(c, [presence[c] EXCEPT !.unPc = "done"], FALSE)
    /\ lastOp' = NoOp
    /\ UNCHANGED listeners
    /\ UNCHANGED <<now, catalog, radioState, radioServerStartTime, clients,
                   lastPass, rvars, online, shvars>>

\* the client stops between two calls without a signal: no beforeunload, no
\* unmount.  The clock of the model can still pass the threshold of its
\* session
Crash(c) ==
    /\ presence[c].life = "mounted"
    /\ ~InFlight(presence[c])
    /\ listeners[c].timestamp + INACTIVE_THRESHOLD
          < T0 + MaxPresenceSteps * PresenceStepMs
    /\ presence' = [presence EXCEPT ![c].life = "crashed"]
    /\ lastOp' = NoOp
    /\ UNCHANGED <<listeners, stats>>
    /\ UNCHANGED <<now, catalog, radioState, radioServerStartTime, clients,
                   lastPass, rvars, online, shvars>>

\* the session ids the loop of cleanupInactiveListeners marks inactive
StaleIds(snapshot, t) ==
    SelectSeq(SessionOrder,
              LAMBDA id : /\ snapshot[id].exists
                          /\ snapshot[id].active
                          /\ Stale(snapshot[id], t))

\* the count of the loop with activeListenersCount++ for a stale listener too
AllActiveCount(snapshot, t) ==
    Cardinality({id \in Clients : snapshot[id].exists /\ snapshot[id].active})

\* the activeListenersCount the loop of cleanupInactiveListeners arrives at
StillActiveCount(snapshot, t) ==
    Cardinality({id \in Clients : /\ snapshot[id].exists
                                  /\ snapshot[id].active
                                  /\ ~Stale(snapshot[id], t)})

\* cleanupInactiveListeners, on mount and from the timer: get(listenersRef),
\* return if there is none, now = Date.now()
CleanupRead(c) ==
    /\ presence[c].life = "mounted"
    /\ presence[c].clPc = "idle"
    /\ \E id \in Clients : listeners[id].exists
    /\ PStep(c, [presence[c] EXCEPT
                    !.clPc = IF StaleIds(listeners, now) = << >>
                             THEN "set_stats" ELSE "mark",
                    !.clQueue = StaleIds(listeners, now),
                    !.clCount = StillActiveCount(listeners, now),
                    !.clNow = IF \A d \in Clients : ~InFlight(presence[d])
                              THEN now ELSE 0,
                    !.clBefore = IF \A d \in Clients : ~InFlight(presence[d])
                                 THEN listeners ELSE << >>,
                    !.clAlone = \A d \in Clients : ~InFlight(presence[d]),
                    !.clRuns = IF @ < MaxCleanups THEN @ + 1 ELSE @],
             TRUE)
    /\ lastOp' = NoOp
    /\ UNCHANGED <<listeners, stats>>
    /\ UNCHANGED <<now, catalog, radioState, radioServerStartTime, clients,
                   lastPass, rvars, online, shvars>>

\* cleanupInactiveListeners: set(listeners/id/active, false) for the next
\* stale id
CleanupMark(c) ==
    /\ presence[c].clPc = "mark"
    /\ listeners' = [listeners EXCEPT ![Head(presence[c].clQueue)].active = FALSE]
    /\ PStep(c, [presence[c] EXCEPT
                    !.clQueue = Tail(@),
                    !.clPc = IF Len(presence[c].clQueue) = 1
                             THEN "set_stats" ELSE "mark"], TRUE)
    /\ lastOp' = NoOp
    /\ UNCHANGED stats
    /\ UNCHANGED <<now, catalog, radioState, radioServerStartTime, clients,
                   lastPass, rvars, online, shvars>>

\* the record of a finished cleanupInactiveListeners: whether it ran without
\* another call under way, the listeners it read and the time it took
CleanupOp(rec) ==
    [op |-> "cleanup", alone |-> rec.clAlone, before |-> rec.clBefore,
     at |-> rec.clNow]

\* cleanupInactiveListeners: set(stats/currentListeners, activeListenersCount)
CleanupSetStats(c) ==
    /\ presence[c].clPc = "set_stats"
    /\ stats' = [stats EXCEPT !.exists = TRUE,
                              !.currentListeners = presence[c].clCount]
    /\ PStep(c, [presence[c] EXCEPT !.clPc = "idle", !.clQueue = << >>,
                                    !.clCount = 0, !.clNow = 0,
                                    !.clBefore = << >>, !.clAlone = FALSE],
             TRUE)
    /\ lastOp' = CleanupOp(presence[c])
    /\ UNCHANGED listeners
    /\ UNCHANGED <<now, catalog, radioState, radioServerStartTime, clients,
                   lastPass, rvars, online, shvars>>

\* the awaited calls of client c continue
PresenceRuns(c) ==
    \/ RegisterGetStats(c)
    \/ RegisterSetListener(c)
    \/ RegisterCount(c)
    \/ RegisterSetStats(c)
    \/ UnregisterSetInactive(c)
    \/ UnregisterCount(c)
    \/ UnregisterSetStats(c)
    \/ CleanupMark(c)
    \/ CleanupSetStats(c)

\* every client mounts, runs cleanupInactiveListeners up to MaxCleanups times
\* and unmounts or stops
NextPresence ==
    \/ PresenceAdvance
    \/ \E c \in Clients :
          \/ Mount(c)
          \/ Unmount(c)
          \/ Crash(c)
          \/ PresenceRuns(c)
          \/ presence[c].clRuns < MaxCleanups /\ CleanupRead(c)

SpecPresence == InitPresence /\ [][NextPresence]_vars

----------------------------------------------------------------------------
(* SpecCleanupFair: the garbage collection of sessions.  Clients mount and
   register, and then either keep running, the timer starting
   cleanupInactiveListeners again and again, or stop without a signal. *)

\* what the runtime does for client c by itself: the awaited calls continue
\* and the timer starts cleanupInactiveListeners
CleanupRuns(c) ==
    \/ RegisterGetStats(c)
    \/ RegisterSetListener(c)
    \/ RegisterCount(c)
    \/ RegisterSetStats(c)
    \/ CleanupRead(c)
    \/ CleanupMark(c)
    \/ CleanupSetStats(c)

NextCleanup ==
    \/ PresenceAdvance
    \/ \E c \in Clients : Mount(c) \/ Crash(c) \/ CleanupRuns(c)

\* the clock runs; awaited calls continue and setInterval keeps starting
\* cleanupInactiveListeners while StatsDisplay is mounted
CleanupFairness ==
    /\ WF_vars(PresenceAdvance)
    /\ \A c \in Clients : WF_vars(CleanupRuns(c))

SpecCleanupFair == InitPresence /\ [][NextCleanup]_vars /\ CleanupFairness

----------------------------------------------------------------------------
(* Reference semantics of durations and of the resolver, for the claims *)

UnitSeconds(u) == IF u = "H" THEN 3600 ELSE IF u = "M" THEN 60 ELSE 1

\* the seconds an ISO-8601 time-of-day duration denotes: every <digits><unit>
\* pair after "PT" counts; 0 for anything else
RECURSIVE RefPairs(_, _)
RefPairs(dur, p) ==
    IF p + 1 > Len(dur) THEN 0
    ELSE IF dur[p].k = "#" /\ dur[p + 1].k \in {"H", "M", "S"}
    THEN dur[p].v * UnitSeconds(dur[p + 1].k) + RefPairs(dur, p + 2)
    ELSE 0

RefSeconds(dur) ==
    IF Len(dur) >= 2 /\ dur[1].k = "P" /\ dur[2].k = "T" THEN RefPairs(dur, 3) ELSE 0

Known(track) == RefSeconds(track.duration) > 0
AllKnown(playlist) == \A i \in 1..Len(playlist) : Known(playlist[i])

\* the duration a track is meant to be scheduled with, in seconds
RefDurationSeconds(track) ==
    IF Known(track) THEN RefSeconds(track.duration) ELSE 180

\* cumulative end time (ms) of the track of 0-based index i, known durations
RECURSIVE RefCumEnd(_, _)
RefCumEnd(playlist, i) ==
    IF i < 0 THEN 0
    ELSE RefSeconds(playlist[i + 1].duration) * 1000 + RefCumEnd(playlist, i - 1)

RefResolve(playlist, origin, t) ==
    LET n == Len(playlist)
        elapsed == t - origin
        total == RefCumEnd(playlist, n - 1)
        r == elapsed % total
        idx == CHOOSE i \in 0..(n - 1) :
                  /\ RefCumEnd(playlist, i) > r
                  /\ \A j \in 0..(i - 1) : RefCumEnd(playlist, j) <= r
    IN [index |-> idx,
        offset |-> (r - RefCumEnd(playlist, idx - 1)) \div 1000,
        epoch |-> elapsed \div total]

Durations(playlist) == [i \in 1..Len(playlist) |-> playlist[i].duration]

----------------------------------------------------------------------------
(* Claims on the resolver, checked under SpecResolver *)

\* C1: for a non-empty playlist and now >= origin the call returns an index
\* in [0, len) and a position p with 0 <= p < duration in seconds of the
\* track at that index.
C1_IndexAndPositionInRange ==
    /\ rNow >= rOrigin
    /\ rInfo.ok
    /\ rInfo.index \in 0..(Len(rState.playlist) - 1)
    /\ rInfo.track = rState.playlist[rInfo.index + 1]
    /\ 0 <= rInfo.position
    /\ rInfo.position < RefDurationSeconds(rState.playlist[rInfo.index + 1])

\* a tick resolved the last track of a longer playlist within the last step
\* before that track ends
C1_Witness ==
    /\ rOp = "tick"
    /\ rInfo.ok
    /\ Len(rState.playlist) >= 2
    /\ rInfo.index = Len(rState.playlist) - 1
    /\ (rInfo.position + 1) * 1000 + StepMs >
           RefDurationSeconds(rState.playlist[rInfo.index + 1]) * 1000

\* C2: with known durations the call agrees with the reference resolver
\* (epoch = floor(elapsed / total), first track whose cumulative end exceeds
\* elapsed mod total, offset = remainder minus the time before the track);
\* 60 s and 30 s give (0, 10, 0) at +10 s, (1, 5, 0) at +65 s, (0, 5, 1) at
\* +95 s.
C2_AgreesWithReference ==
    AllKnown(rState.playlist) =>
        /\ rInfo.ok
        /\ LET ref == RefResolve(rState.playlist, rOrigin, rNow)
           IN /\ rInfo.index = ref.index
              /\ rInfo.position = ref.offset
              /\ rInfo.epoch = ref.epoch
        /\ Durations(rState.playlist) = <<PT1M, PT30S>> =>
              /\ rNow - rOrigin = 10000 =>
                    rInfo.index = 0 /\ rInfo.position = 10 /\ rInfo.epoch = 0
              /\ rNow - rOrigin = 65000 =>
                    rInfo.index = 1 /\ rInfo.position = 5 /\ rInfo.epoch = 0
              /\ rNow - rOrigin = 95000 =>
                    rInfo.index = 0 /\ rInfo.position = 5 /\ rInfo.epoch = 1

\* the 60 s / 30 s playlist resolved at origin + 95 s, in its second pass
C2_Witness ==
    /\ rOp = "tick"
    /\ Durations(rState.playlist) = <<PT1M, PT30S>>
    /\ rNow - rOrigin = 95000
    /\ rInfo.epoch = 1

\* every index of the playlist is in playedTracks
AllPlayed(state) ==
    \A i \in 0..(Len(state.playlist) - 1) : Includes(state.playedTracks, i)

\* C3: a track whose duration is zero, missing or unparseable is scheduled
\* with the 3-minute default, also next to tracks with positive durations,
\* so every track has been the resolved track once a full pass is over.
C3_UnknownDurationsGetDefault ==
    /\ \A i \in 1..Len(rState.playlist) :
          ~Known(rState.playlist[i]) =>
              trackDurations(rState.playlist)[i] = DefaultDurationMs
    /\ (~rMerged /\ rInfo.ok /\ rInfo.epoch >= 1) => AllPlayed(rState)

\* C4: as now increases the offset never decreases while the index stays
\* the same, and each change of the index advances it by one, wrapping from
\* the last index to 0 with epoch + 1; a one-track playlist keeps index 0,
\* its offset wraps at the track's duration and epoch increments at the wrap.
C4_MonotoneWithinPass ==
    (rOp = "tick" /\ rPrev.ok /\ rInfo.ok) =>
        LET n == Len(rState.playlist)
        IN IF n = 1
           THEN /\ rInfo.index = 0
                /\ rInfo.epoch = rPrev.epoch => rInfo.position >= rPrev.position
                /\ rInfo.epoch # rPrev.epoch =>
                      /\ rInfo.epoch = rPrev.epoch + 1
                      /\ rInfo.position < rPrev.position
           ELSE /\ rInfo.index = rPrev.index =>
                      /\ rInfo.position >= rPrev.position
                      /\ rInfo.epoch = rPrev.epoch
                /\ rInfo.index # rPrev.index =>
                      /\ rInfo.index = (rPrev.index + 1) % n
                      /\ rInfo.epoch =
                            rPrev.epoch + (IF rInfo.index = 0 THEN 1 ELSE 0)

\* the indices 0 .. n-1 in order, a playedTracks of a finished cycle
AllIndices(n) == [i \in 1..n |-> i - 1]

\* state objects with the playlist of `state` and other bookkeeping
Bookkeepings(state) ==
    {[state EXCEPT !.playedTracks = pt, !.hasPlayedTracks = (pt # << >>),
                   !.lastLoggedTrack = lg[1], !.reportedTrackChange = lg[2]] :
        pt \in {<< >>, <<0>>, AllIndices(Len(state.playlist))},
        lg \in {<<0 - 1, FALSE>>, <<Len(state.playlist) - 1, TRUE>>}}

\* C5: the result depends only on origin, playlist and now: it is the same
\* whatever playedTracks and the logging fields of the state object hold and
\* however many calls were made before.
C5_ResultIgnoresBookkeeping ==
    /\ rInfo = getCurrentTrack(InitialState(rState.playlist), rOrigin, rNow)
    /\ \A other \in Bookkeepings(rState) :
          getCurrentTrack(other, rOrigin, rNow) = rInfo

\* a call made on a state object that earlier calls have filled: two played
\* indices, a reported track change
C5_Witness ==
    /\ rOp = "tick"
    /\ Len(rState.playedTracks) >= 2
    /\ rState.lastLoggedTrack >= 1
    /\ rInfo.ok
    /\ rInfo.epoch >= 1

\* C6: a merge never changes the resolved track: resolved at the same
\* instant, the track and offset against the merged playlist equal those
\* against the playlist before the merge.
C6_MergeKeepsResolvedTrack ==
    (rOp = "merge" /\ rPrev.ok) =>
        /\ rInfo.ok
        /\ rInfo.track = rPrev.track
        /\ rInfo.position = rPrev.position

----------------------------------------------------------------------------
(* Claims on reconciliation, checked under Spec *)

\* the snapshot holds every id of the playlist and at least one more
AddsOnly(state, items) ==
    /\ state.exists
    /\ Ids(state.playlist) \subseteq Ids(items)
    /\ Ids(items) # Ids(state.playlist)

\* the tracks of the snapshot whose ids the playlist does not hold
NewTracks(state, items) ==
    LET held == Ids(state.playlist)
        IsNew(item) == item.id \notin held
    IN SelectSeq(items, IsNew)

\* C7: when the snapshot of a pass holds every id of the active playlist plus
\* new ids, a write of the pass to the store is a merge: the playlist becomes
\* the previous playlist followed by exactly the new tracks, and the origin
\* and playedTracks stay as they were
C7_AddOnlySnapshotMerges ==
    (lastPass.write.event # "none"
        /\ AddsOnly(lastPass.write.before, lastPass.write.items))
    => \/ /\ lastPass.write.after = lastPass.write.before
          /\ lastPass.write.afterOrigin = lastPass.write.beforeOrigin
       \/ /\ lastPass.write.event = "merge"
          /\ lastPass.write.after.playlist =
                lastPass.write.before.playlist
                   \o NewTracks(lastPass.write.before, lastPass.write.items)
          /\ lastPass.write.after.playedTracks = lastPass.write.before.playedTracks
          /\ lastPass.write.afterOrigin = lastPass.write.beforeOrigin

\* C8: a pass that saw an id of the active playlist missing from its snapshot
\* ends having reset and rebuilt, and the playlist it leaves holds no id
\* that the snapshot lacks
C8_RemovedIdForcesReplace ==
    (lastPass.done.event = "done" /\ lastPass.done.sawRemoved)
    => /\ lastPass.done.replaced
       /\ lastPass.done.after.exists
       /\ Ids(lastPass.done.after.playlist) \subseteq Ids(lastPass.done.items)

\* C9: a pass resets the store only when some id of the active playlist is
\* missing from its snapshot
C9_ResetOnlyOnRemoval ==
    (lastPass.write.event = "reset" /\ lastPass.write.before.exists)
    => ~(Ids(lastPass.write.before.playlist) \subseteq Ids(lastPass.write.items))

----------------------------------------------------------------------------
(* Claims on the origin, checked under SpecOrigin *)

\* the timestamps returned by the initializeFirebase calls that found no origin
CreatedStamps ==
    {clients[c].stamp :
        c \in {d \in Clients : clients[d].firebaseInitialized /\ clients[d].sawAbsent}}

\* a getServerStartTime call has taken its timestamp and not yet written it
WritePending ==
    \E c \in Clients : clients[c].pc = "gs_set" \/ clients[c].ixPc = "set"

\* C10: the calls of getServerStartTime that found the store without an
\* origin all return the same timestamp, and once no write is pending that
\* timestamp is the origin in the store
C10_OriginCreationAtomic ==
    /\ Cardinality(CreatedStamps) <= 1
    /\ (~WritePending /\ CreatedStamps # {})
          => CreatedStamps = {parseInt(radioServerStartTime)}

\* C11: a write of getServerStartTime never replaces the stored origin by an
\* earlier timestamp (SpecOrigin has no resetRadioState)
C11_OriginNeverMovesBack ==
    [][(radioServerStartTime # << >> /\ radioServerStartTime' # << >>)
          => parseInt(radioServerStartTime') >= parseInt(radioServerStartTime)]_vars

----------------------------------------------------------------------------
(* Claims on the reset origin, checked under Spec *)

\* C12: a pass that reset and rebuilt resolves its next position against the
\* origin its resetRadioState wrote
C12_ReplaceResolvesAgainstNewOrigin ==
    (lastPass.done.event = "done" /\ lastPass.done.replaced)
    => lastPass.done.usedOrigin = parseInt(lastPass.done.resetOrigin)

----------------------------------------------------------------------------
(* Claims on the end of a cycle, checked under SpecCycle and SpecCycleFair *)

\* some client has resolved every index of the shared playlist since the
\* last reshuffle
AllResolved ==
    /\ radioState.exists
    /\ \E c \in Clients :
          /\ clients[c].seen.playlist = radioState.playlist
          /\ clients[c].seen.indices = 0..(Len(radioState.playlist) - 1)

\* C13: while the store keeps answering and the clients keep ticking, once
\* a client has resolved every track of the shared playlist the shared record
\* eventually has |playedTracks| >= |playlist|, the condition on which
\* checkAndResetPlayedTracks shuffles again
C13_CompletedCycleReachesStore ==
    []((AllResolved /\ []online) => <>CycleComplete(radioState))

\* C14: when two clients found the same cycle complete and both run
\* checkAndResetPlayedTracks, the write of the one that comes second does not
\* replace the order the first one wrote by another permutation
C14_SecondReshuffleSuppressed ==
    (lastPass.write.event = "reshuffle" /\ lastPass.write.overtaken)
    => lastPass.write.after.playlist = lastPass.write.before.playlist

\* playedTracks of a record holds no index twice and only indices of its
\* playlist
ValidPlayed(state) ==
    /\ \A k \in 1..Len(state.playedTracks) :
          /\ 0 <= state.playedTracks[k]
          /\ state.playedTracks[k] < Len(state.playlist)
    /\ \A k, l \in 1..Len(state.playedTracks) :
          state.playedTracks[k] = state.playedTracks[l] => k = l

\* a write put a new playlist in the shared record: there was no record, or
\* the new playlist is not the old one with tracks appended
Rearranged(old, new) ==
    /\ new.exists
    /\ \/ ~old.exists
       \/ Len(new.playlist) < Len(old.playlist)
       \/ SubSeq(new.playlist, 1, Len(old.playlist)) # old.playlist

----------------------------------------------------------------------------
(* Claims on shuffleArray, checked under SpecShuffle *)

\* a and b have the same length and hold every track id equally often
SameTracks(a, b) ==
    /\ Len(a) = Len(b)
    /\ \A id \in Ids(a) \cup Ids(b) :
          Cardinality({k \in 1..Len(a) : a[k].id = id})
             = Cardinality({k \in 1..Len(b) : b[k].id = id})

\* C15: the array shuffleArray returns, to initializeRadio and to
\* checkAndResetPlayedTracks alike, has the length and the multiset of track
\* ids of the array it was given, whatever the random draws; it is one of the
\* results shuffleArray has in the other specifications
C15_ShuffleIsPermutation ==
    shI <= 0 => /\ SameTracks(shArray, shGiven)
                /\ shArray \in shuffleArray(shGiven)

\* a shuffle of three tracks, one id twice, has returned another order
C15_Witness ==
    /\ shI <= 0
    /\ Len(shGiven) = 3
    /\ Cardinality(Ids(shGiven)) = 2
    /\ shArray # shGiven

----------------------------------------------------------------------------
(* Claims on listener presence, checked under SpecPresence and
   SpecCleanupFair *)

\* no registerListener, unregisterListener or cleanupInactiveListeners is
\* under way
Quiet == \A c \in Clients : ~InFlight(presence[c])

\* the sessions whose active flag is true
ActiveSessions == {id \in Clients : listeners[id].exists /\ listeners[id].active}

\* C17: whenever no presence call is under way, stats.currentListeners is the
\* number of sessions whose active flag is true
C17_CountMatchesSessions ==
    Quiet => stats.currentListeners = Cardinality(ActiveSessions)

\* every registerListener that was called has returned
AllRegistered ==
    \A c \in Clients : presence[c].regPc \in {"idle", "done", "failed"}

\* C18: stats.totalListeners never decreases, and once every registration has
\* returned it is the number of registerListener calls that returned true
C18_TotalCountsRegistrations ==
    /\ [][stats'.totalListeners >= stats.totalListeners]_vars
    /\ [](AllRegistered
          => stats.totalListeners
                = Cardinality({c \in Clients : presence[c].regPc = "done"}))

\* a heartbeat older than the five-minute threshold at time t
Expired(listener, t) ==
    listener.hasTimestamp /\ t - listener.timestamp > 5 * 60 * 1000

\* the sessions are those of `before`, the active ones with an expired
\* heartbeat made inactive
CleanedUp(before, t) ==
    \A id \in Clients :
       listeners[id] = IF /\ before[id].exists
                          /\ before[id].active
                          /\ Expired(before[id], t)
                       THEN [before[id] EXCEPT !.active = FALSE]
                       ELSE before[id]

\* C19: after a cleanupInactiveListeners that ran with no other presence call
\* under way, every session that was active with a heartbeat older than the
\* threshold is inactive, every other session is as it was, and
\* stats.currentListeners is the number of active sessions; and the session
\* of a client that stopped without a signal is eventually inactive and out
\* of the count while some client stays mounted and so keeps running the
\* cleanup
C19_CleanupReapsStaleSessions ==
    /\ []((lastOp.op = "cleanup" /\ lastOp.alone)
          => /\ CleanedUp(lastOp.before, lastOp.at)
             /\ stats.currentListeners = Cardinality(ActiveSessions))
    /\ \A c \in Clients : \A d \in Clients :
          []((/\ presence[c].life = "crashed"
              /\ listeners[c].active
              /\ [](presence[d].life = "mounted"))
             => <>(/\ ~listeners[c].active
                   /\ stats.currentListeners = Cardinality(ActiveSessions)))

\* a cleanup that ran alone found one session fresh and the session of a
\* stopped client stale: it left the count at 1
C19_Witness ==
    /\ lastOp.op = "cleanup"
    /\ lastOp.alone
    /\ stats.currentListeners = 1
    /\ \E c \in Clients :
          /\ presence[c].life = "crashed"
          /\ lastOp.before[c].active
          /\ ~listeners[c].active
    /\ \E d \in Clients :
          /\ lastOp.before[d].active
          /\ listeners[d].active

\* C20: once the active flag of a session is false, no later write sets it
\* to true
C20_InactiveIsTerminal ==
    [][\A id \in Clients :
          (listeners[id].exists /\ ~listeners[id].active)
          => ~listeners'[id].active]_vars

\* client c is connected: StatsDisplay is mounted and its registerListener
\* has returned true
Connected(c) ==
    presence[c].life = "mounted" /\ presence[c].regPc = "done"

\* C21: the session of a client that stays connected and has not
\* disconnected is never marked inactive by a garbage collection: it is
\* active, however late the clock
C21_ConnectedStaysActive ==
    \A c \in Clients : Connected(c) => listeners[c].active

\* client c has unmounted and none of its calls is under way any more
Gone(c) ==
    presence[c].life = "unmounted" /\ ~InFlight(presence[c])

\* C28: once unregisterListener of a client has returned and none of the
\* client's calls is under way, its session is inactive and is not counted:
\* with no other client ever mounted, stats.currentListeners is 0
C28_UnregisteredIsOut ==
    \A c \in Clients :
       Gone(c) => /\ listeners[c].exists => ~listeners[c].active
                  /\ (\A d \in Clients \ {c} : presence[d].life = "new")
                        => stats.currentListeners = 0

----------------------------------------------------------------------------
(* Claims on the start of the radio, checked under Spec *)

\* C27: initializeRadio never overwrites a radio state with a playlist: when
\* the set() of its initial state lands on a store that holds such a state,
\* the stored playlist order stays
C27_InitKeepsExistingState ==
    [][\A c \in Clients :
          (/\ clients[c].pc = "ir_write"
           /\ clients'[c].pc # "ir_write"
           /\ radioState.exists
           /\ radioState.playlist # << >>)
          => radioState'.playlist = radioState.playlist]_vars

----------------------------------------------------------------------------
(* Claims on failing passes, checked under SpecRefresh *)

\* C24: a reconciliation pass whose catalog fetch throws or returns no track
\* leaves radioState (playlist, playedTracks) and radioServerStartTime as
\* they were before the pass
C24_FailedFetchLeavesStore ==
    lastPass.done.event = "failed"
    => /\ radioState = lastPass.done.before
       /\ radioServerStartTime = lastPass.done.beforeOrigin

\* a pass has just ended at an empty fetch result, with a radio state in the
\* store
C24_Witness ==
    /\ lastPass.done.event = "failed"
    /\ lastPass.done.outcome = "empty"
    /\ radioState.exists
    /\ radioState.playlist # << >>

----------------------------------------------------------------------------
(* Claims on the timers, checked under SpecTimers *)

\* C29: while a client stays connected with the store reachable, its
\* five-minute timer eventually starts a reconciliation pass, also when the
\* current track changes more often than every five minutes
C29_RefreshEventuallyStarts ==
    \A c \in Clients : <>clients[c].refreshFired

----------------------------------------------------------------------------
(* Claims on the ticks, checked under SpecTick *)

\* C22: the ticks of one client never overlap: no tick starts while the store
\* read of the tick before is awaited, and the results of the ticks are
\* applied in the order the ticks started
C22_TicksDoNotOverlap ==
    /\ [](\A c \in Clients : Len(clients[c].inFlight) <= 1)
    /\ [][\A c \in Clients : clients'[c].applied >= clients[c].applied]_vars

----------------------------------------------------------------------------
(* Claims on the page load, checked under SpecBoot *)

\* C26: a starting client never destroys a broadcast: the startup routine
\* removes the radio state, and resets the origin, only if no radio state
\* exists at the moment of the removal
C26_StartupKeepsBroadcast ==
    [][\A c \in Clients :
          (BootResetState(c) \/ BootResetTime(c)) => ~radioState.exists]_vars

----------------------------------------------------------------------------
(* Claims on the origin during an outage, checked under SpecFallback *)

\* a getServerStartTime of client c returns from its catch in this step
FallsBack(c) == IndexStartTimeFallback(c) \/ GetStartTimeFallback(c)

\* C25: with the store unreachable getServerStartTime does not fail: it
\* returns the origin localStorage holds, or else a new one that it stores
\* there, and a call returns what the call before it returned during the
\* same outage
C25_FallbackOrigin ==
    [][\A c \in Clients :
          FallsBack(c)
          => /\ clients'[c].fellBack
                   = IF clients[c].lsStartTime # << >>
                     THEN clients[c].lsStartTime ELSE toString(now)
             /\ clients'[c].lsStartTime = clients'[c].fellBack
             /\ GetStartTimeFallback(c)
                   => /\ clients'[c].firebaseInitialized
                      /\ clients'[c].serverStartTime
                            = parseInt(clients'[c].fellBack)
             /\ clients[c].fellBack # << >>
                   => clients'[c].fellBack = clients[c].fellBack]_vars

\* C30: every getServerStartTime that read or created the origin in the store
\* leaves it in localStorage too, so that a later fallback returns the origin
\* the client last obtained from the store
C30_CacheFollowsStore ==
    /\ [][\A c \in Clients :
             (online /\ (GetStartTimeRead(c) \/ GetStartTimeWrite(c))
                     /\ clients'[c].firebaseInitialized)
             => clients'[c].lsStartTime = toString(clients'[c].serverStartTime)]_vars
    /\ [][\A c \in Clients :
             (GetStartTimeFallback(c) /\ clients[c].obtained # << >>)
             => clients'[c].serverStartTime = parseInt(clients[c].obtained)]_vars

----------------------------------------------------------------------------
(* Claims on polling, checked under SpecPoll *)

\* client c resolves against the origin the store holds
OriginCurrent(c) ==
    clients[c].serverStartTime = parseInt(radioServerStartTime)

\* the track client c plays is one of the playlist the store holds
TrackCurrent(c) ==
    radioState.exists
    => \E i \in 1..Len(radioState.playlist) :
          radioState.playlist[i].id = clients[c].currentTrack

\* C23: without any push, the polling of a client converges: after another
\* client changed the origin or the playlist in the store, the client
\* eventually resolves against the new origin and the new playlist, and goes
\* on doing so
C23_PollingConverges ==
    \A c \in Clients : <>[](OriginCurrent(c) /\ TrackCurrent(c))

====
